---- MODULE Spec2Model ----
(***************************************************************************)
(* Model of backend.py (robinhood_space): the /api/portfolio report        *)
(* computation, its two process-wide caches (instrument_cache guarded by   *)
(* instrument_cache_lock, asset_metadata_cache) and the analytics          *)
(* functions.  Flask serves requests on several threads, so several        *)
(* get_portfolio runs may interleave on the same caches.                   *)
(***************************************************************************)
EXTENDS Integers, Sequences, FiniteSets, TLC

\* ------------------------------------------------------------------ bounds
NThreads == 2      \* request threads that may run get_portfolio concurrently
MaxReports == 2    \* reports started over the life of the process
MaxOrders == 2     \* length of the order history returned by the broker
MaxLogged == 2     \* resolver_log counts a URL's successful calls up to this
MaxFlows == 2      \* cash-flow events per symbol given to the analytics
Today == 8         \* datetime.today(), as a day number
MonthDays == 2     \* days of a calendar month (all months alike)
MaxHist == 2       \* rows of the benchmark price history

Threads == 1..NThreads

\* ------------------------------------------------------ the external world
Urls == {"u1", "u2"}
Symbols == {"A", "B"}
Absent == "absent"

\* The same for a map whose values are metadata records
NoMetadata == [sector |-> Absent, isEtf |-> FALSE]

\* rh.stocks.get_instrument_by_url(url)['symbol'] when the call succeeds
SymbolOf(u) == IF u = "u1" THEN "A" ELSE "B"

\* One fill of an order: execution['timestamp'][:find("T")], rounded_notional
Fill(day, notional) == [day |-> day, notional |-> notional]

\* The formats of order["last_transaction_at"]: "%Y-%m-%dT%H:%M:%SZ",
\* "%Y-%m-%dT%H:%M:%S.%fZ", or a string that matches neither.
TsFormats == {"plain", "frac", "bad"}

\* Order records of the report pipeline: a filled order carries one fill.
FilledOrders ==
    [instrument : Urls, state : {"filled"}, side : {"buy"},
     executions : {<<Fill(1, 1)>>}, ts_day : {1}, ts_fmt : TsFormats]

UnfilledOrders ==
    [instrument : Urls, state : {"cancelled"}, side : {"buy"},
     executions : {<<>>}, ts_day : {1}, ts_fmt : {"plain"}]

OrderPool == FilledOrders \cup UnfilledOrders

OrderLists == UNION {[1..n -> OrderPool] : n \in 0..MaxOrders}

\* Mutant of Reverse: the list is left as the broker returned it.
NotReversed(s) == s

\* orders[::-1]
Reverse(s) == [k \in 1..Len(s) |-> s[Len(s) + 1 - k]]

RECURSIVE SumSeq(_)
SumSeq(s) == IF s = <<>> THEN 0 ELSE Head(s) + SumSeq(Tail(s))

\* ------------------------------------------------------------------- state
VARIABLES
    instrument_cache,       \* instrument URL -> symbol, Absent when not a key
    instrument_cache_lock,  \* 0 when free, else the thread that holds it
    asset_metadata_cache,   \* symbol -> metadata, Absent when not a key
    account_orders,         \* what rh.orders.get_all_stock_orders() returns
    account_holdings,       \* the symbols of rh.account.build_holdings()
    pc,                     \* each request thread's position in get_portfolio
    frame,                  \* each request thread's local variables
    response,               \* each request thread's last HTTP response
    report,                 \* and the JSON body of that response
    started,                \* reports started so far
    resolver_log,           \* per URL: successful resolver calls so far
    xirr_call,              \* a call of calculate_xirr_investments
    sp500_call,             \* a call of calculate_sp500_comparison_optimized
    hist_call,              \* a call of get_historical_performance_optimized
    cashflow_call,          \* get_monthly_cash_flows and
                            \* get_cash_flow_transactions on one map
    logged_in,              \* the global login flag
    login_token,            \* the global login token, "None" when None
    session_start_time,     \* the global start time, "None" when None
    logout_log              \* per thread: how its last rh.logout() ended

vars == <<instrument_cache, instrument_cache_lock, asset_metadata_cache,
          account_orders, account_holdings, pc, frame, response, report,
          started,
          resolver_log, xirr_call, sp500_call, hist_call, cashflow_call,
          logged_in, login_token, session_start_time, logout_log>>

caches == <<instrument_cache, instrument_cache_lock, asset_metadata_cache>>
account == <<account_orders, account_holdings>>
analytics == <<xirr_call, sp500_call, hist_call, cashflow_call>>
logs == <<resolver_log>>
session == <<logged_in, login_token, session_start_time, logout_log>>

\* individual_orders = {}: the keys in insertion order, and for every key
\* [dates, amounts]
EmptyOrders ==
    [keys |-> <<>>, dates |-> [s \in Symbols |-> <<>>],
     amounts |-> [s \in Symbols |-> <<>>]]

\* symbol in individual_orders
HasKey(io, symbol) == \E k \in 1..Len(io.keys) : io.keys[k] = symbol

\* No call of calculate_xirr_investments is being followed.
NoXirrCall ==
    [pc |-> "off", stocks_data |-> <<>>, individual_orders |-> EmptyOrders,
     diverges |-> {}, k |-> 1, xirr_values |-> <<>>, investments |-> <<>>,
     overall_xirr |-> 0]

\* No call of calculate_sp500_comparison_optimized is being followed.
NoSp500Call ==
    [pc |-> "off", start_date |-> 0, total_investment |-> 0, hist |-> <<>>,
     diverges |-> FALSE, total_months |-> 0, current_date |-> 0,
     purchases |-> <<>>, sp500_xirr |-> 0, current_value |-> <<0, 1>>,
     result |-> "pending"]

\* No call of get_historical_performance_optimized is being followed.
NoHistCall ==
    [pc |-> "off", individual_orders |-> EmptyOrders, start_date |-> 0,
     sp500_hist |-> <<>>, transactions |-> <<>>, current_date |-> 0,
     cumulative_investment |-> 0, sp500_shares |-> <<0, 1>>,
     sp500_investment |-> 0, processed_transaction_dates |-> {},
     historical_data |-> <<>>]

\* No call of the two cash-flow reports is being followed.
NoCashFlowCall ==
    [pc |-> "off", individual_orders |-> EmptyOrders,
     monthly_cash_flows |-> <<>>, cash_flow_transactions |-> <<>>]

\* The JSON body of a response: 'success' and the fields of 'data'; sp500 is
\* the empty list for null and a list of one row otherwise.  No body yet, or
\* the body of an error:
NoReport ==
    [success |-> FALSE, stocks |-> <<>>, sp500 |-> <<>>,
     historicalData |-> <<>>, monthlyCashFlows |-> <<>>,
     cashFlowTransactions |-> <<>>, totalInvestment |-> 0,
     totalCurrentValue |-> 0, totalProfitLoss |-> 0, overallXirr |-> 0]

\* lines 289-301: the body returned when there are no holdings
EmptyReport ==
    [success |-> TRUE, stocks |-> <<>>, sp500 |-> <<>>,
     historicalData |-> <<>>, monthlyCashFlows |-> <<>>,
     cashFlowTransactions |-> <<>>, totalInvestment |-> 0,
     totalCurrentValue |-> 0, totalProfitLoss |-> 0, overallXirr |-> 0]

\* The locals of one get_portfolio run, as they are when the request starts.
NewFrame ==
    [orders |-> <<>>,                          \* orders, reversed
     futures |-> [u \in Urls |-> "none"],      \* prefetch_instruments' futures
     url |-> Absent,                           \* URL being inserted / resolved
     i |-> 1,                                  \* index of the order in the loop
     symbol |-> Absent,                        \* get_instrument_symbol's result
     individual_orders |-> EmptyOrders,
     all_dates |-> <<>>,
     investments |-> [s \in Symbols |-> 0],
     meta_futures |-> [s \in Symbols |-> "none"],
     meta_results |-> [s \in Symbols |-> NoMetadata],
     calls |-> [u \in Urls |-> 0],             \* resolver calls in this report
     failed |-> {}]                            \* URLs whose resolver call failed

\* lines 26-28: the session globals when the module is loaded
NoSession ==
    /\ logged_in = FALSE
    /\ login_token = "None"
    /\ session_start_time = "None"
    /\ logout_log = [t \in Threads |-> "none"]

\* The session globals after a login has succeeded (lines 214-216)
SessionOpen ==
    /\ logged_in = TRUE
    /\ login_token = "token"
    /\ session_start_time = "set"
    /\ logout_log = [t \in Threads |-> "none"]

\* The process serves reports in an open session.
Init ==
    /\ instrument_cache = [u \in Urls |-> Absent]
    /\ instrument_cache_lock = 0
    /\ asset_metadata_cache = [s \in Symbols |-> NoMetadata]
    /\ account_orders \in OrderLists
    /\ account_holdings \in SUBSET Symbols
    /\ pc = [t \in Threads |-> "idle"]
    /\ frame = [t \in Threads |-> NewFrame]
    /\ response = [t \in Threads |-> [status |-> "none", message |-> ""]]
    /\ report = [t \in Threads |-> NoReport]
    /\ started = 0
    /\ resolver_log = [u \in Urls |-> 0]
    /\ SessionOpen
    /\ xirr_call = NoXirrCall
    /\ sp500_call = NoSp500Call
    /\ hist_call = NoHistCall
    /\ cashflow_call = NoCashFlowCall

\* -------------------------------------------------- process_orders_optimized
\* lines 444-445: if symbol not in individual_orders: ... = [[], []]
RegisterSymbol(io, symbol) ==
    IF HasKey(io, symbol) THEN io
    ELSE [io EXCEPT !.keys = Append(@, symbol),
                    !.dates[symbol] = <<>>, !.amounts[symbol] = <<>>]

\* line 451: float(rounded_notional) * (-1 if order['side'] == 'buy' else 1)
SignedAmount(order, execution) ==
    execution.notional * (IF order.side = "buy" THEN -1 ELSE 1)

\* lines 449-453: one (date, amount) pair appended per execution, in order
RECURSIVE AppendExecutions(_, _, _, _)
AppendExecutions(io, symbol, order, k) ==
    IF k > Len(order.executions) THEN io
    ELSE AppendExecutions(
             [io EXCEPT
                 !.dates[symbol] = Append(@, order.executions[k].day),
                 !.amounts[symbol] =
                     Append(@, SignedAmount(order, order.executions[k]))],
             symbol, order, k + 1)

\* datetime.strptime(order["last_transaction_at"], fmt) succeeds
Strptime(order, fmt) == order.ts_fmt = fmt

\* lines 456-459: the first format, and in the except clause the second one,
\* whose ValueError nothing catches.
OrderDateParses(order) ==
    IF Strptime(order, "plain") THEN TRUE ELSE Strptime(order, "frac")

\* Mutant of OrderProcessed: the symbol is registered inside the branch of
\* filled orders.
OrderProcessedFilledOnly(fr, symbol) ==
    LET order == fr.orders[fr.i]
        registered == RegisterSymbol(fr.individual_orders, symbol)
    IN  IF order.state = "filled"
        THEN [fr EXCEPT
                 !.individual_orders =
                     AppendExecutions(registered, symbol, order, 1),
                 !.all_dates = Append(@, order.ts_day),
                 !.symbol = Absent, !.url = Absent, !.i = @ + 1]
        ELSE [fr EXCEPT !.symbol = Absent, !.url = Absent, !.i = @ + 1]

\* lines 444-462 for the order at index i, resolved to symbol, when nothing
\* raises: the frame with the order aggregated and the loop advanced.
OrderProcessed(fr, symbol) ==
    LET order == fr.orders[fr.i]
        registered == RegisterSymbol(fr.individual_orders, symbol)
    IN  IF order.state = "filled"
        THEN [fr EXCEPT
                 !.individual_orders =
                     AppendExecutions(registered, symbol, order, 1),
                 !.all_dates = Append(@, order.ts_day),
                 !.symbol = Absent, !.url = Absent, !.i = @ + 1]
        ELSE [fr EXCEPT !.individual_orders = registered,
                        !.symbol = Absent, !.url = Absent, !.i = @ + 1]

\* ------------------------------------------------ calculate_xirr_investments
\* individual_orders.get(symbol, [[], []])[1]
AmountsFor(io, symbol) ==
    IF HasKey(io, symbol) THEN io.amounts[symbol] ELSE <<>>

\* Mutant of Investment: the sign is not turned.
InvestmentUnsigned(io, symbol) == SumSeq(AmountsFor(io, symbol))

\* line 557: investments.append(-1 * sum(amounts_for_symbol))
Investment(io, symbol) == -1 * SumSeq(AmountsFor(io, symbol))

\* ------------------------------------------------------------ asset metadata
\* yf.Ticker(symbol).info as far as fetch_asset_metadata_single reads it
InfoOf(symbol) ==
    [sector |-> "Technology",
     quoteType |-> IF symbol = "B" THEN "ETF" ELSE "EQUITY"]

\* any(token in name_text for token in ['etf', 'index', 'fund', ...])
NameHasFundToken(symbol) == symbol = "B"

\* lines 492-517: the metadata built from info, or, when the lookup raised,
\* from the defaults and the name.
MetadataFrom(symbol, ok) ==
    [sector |-> IF ok THEN InfoOf(symbol).sector ELSE "Uncategorized",
     isEtf |-> (ok /\ InfoOf(symbol).quoteType = "ETF")
               \/ NameHasFundToken(symbol)]

\* ------------------------------------------------------------ get_portfolio
\* The responses of /api/portfolio: the report, the all-zero report of an
\* empty account, analytics, and 500 with 'message': str(e), here the call that raised.
Errors ==
    {"build_holdings", "get_all_stock_orders", "get_instrument_by_url",
     "strptime", "fetch_sp500_history"}

Response(status, message) == [status |-> status, message |-> message]

Responses ==
    {Response(st, "") : st \in {"none", "ok", "empty"}}
    \cup {Response("error500", e) : e \in Errors}
    \cup {Response("error401", "Not logged in")}

\* except Exception as e: return jsonify({'success': False, ...}), 500; the
\* frame is unwound.
Raise(t, e) ==
    /\ pc' = [pc EXCEPT ![t] = "done"]
    /\ response' = [response EXCEPT ![t] = Response("error500", e)]
    /\ report' = [report EXCEPT ![t] = NoReport]
    /\ frame' = [frame EXCEPT ![t] = NewFrame]

Goto(t, label) ==
    /\ pc' = [pc EXCEPT ![t] = label]
    /\ UNCHANGED <<response, report>>

\* Mutant of BuildHoldings: no early return for an empty snapshot.
BuildHoldingsNoEarlyReturn(t) ==
    /\ pc[t] \in {"idle", "done"}
    /\ \A other \in Threads : other < t => pc[other] \notin {"idle", "done"}
    /\ logged_in
    /\ started < MaxReports
    /\ started' = started + 1
    /\ \/ Raise(t, "build_holdings")
       \/ /\ frame' = [frame EXCEPT ![t] = NewFrame]
          /\ pc' = [pc EXCEPT ![t] = "orders"]
          /\ response' = [response EXCEPT ![t] = Response("none", "")]
          /\ report' = [report EXCEPT ![t] = NoReport]
    /\ UNCHANGED <<caches, account, session, analytics, logs>>

\* A request arrives and is served by the first thread that is free; it
\* passes the check of logged_in (line 265). Then
\* holdings = rh.account.build_holdings(), which may raise; an empty snapshot
\* answers at once with the all-zero report.
BuildHoldings(t) ==
    /\ pc[t] \in {"idle", "done"}
    /\ \A other \in Threads : other < t => pc[other] \notin {"idle", "done"}
    /\ logged_in
    /\ started < MaxReports
    /\ started' = started + 1
    /\ \/ Raise(t, "build_holdings")
       \/ /\ account_holdings = {}
          /\ frame' = [frame EXCEPT ![t] = NewFrame]
          /\ pc' = [pc EXCEPT ![t] = "done"]
          /\ response' = [response EXCEPT ![t] = Response("empty", "")]
          /\ report' = [report EXCEPT ![t] = EmptyReport]
       \/ /\ account_holdings # {}
          /\ frame' = [frame EXCEPT ![t] = NewFrame]
          /\ pc' = [pc EXCEPT ![t] = "orders"]
          /\ response' = [response EXCEPT ![t] = Response("none", "")]
          /\ report' = [report EXCEPT ![t] = NoReport]
    /\ UNCHANGED <<caches, account, session, analytics, logs>>

\* lines 265-269: a request that finds logged_in false is answered 401
\* before anything is fetched.
RefuseNotLoggedIn(t) ==
    /\ pc[t] \in {"idle", "done"}
    /\ \A other \in Threads : other < t => pc[other] \notin {"idle", "done"}
    /\ ~logged_in
    /\ pc' = [pc EXCEPT ![t] = "done"]
    /\ response' = [response EXCEPT ![t] =
           Response("error401", "Not logged in")]
    /\ report' = [report EXCEPT ![t] = NoReport]
    /\ UNCHANGED <<caches, account, session, analytics, frame, started, logs>>

\* orders = rh.orders.get_all_stock_orders(); orders = orders[::-1]
GetAllStockOrders(t) ==
    /\ pc[t] = "orders"
    /\ \/ Raise(t, "get_all_stock_orders")
       \/ /\ frame' = [frame EXCEPT ![t].orders = Reverse(account_orders)]
          /\ Goto(t, "pf_lock")
    /\ UNCHANGED <<caches, account, session, analytics, started, logs>>

\* unique_instruments = set(order['instrument'] for order in orders)
UniqueInstruments(t) ==
    {frame[t].orders[k].instrument : k \in 1..Len(frame[t].orders)}

\* ---------------------------------------------------- instrument resolution
\* One call of rh.stocks.get_instrument_by_url(u) made for a report, counted
\* in the report's frame
ResolverCall(fr, u, ok) ==
    [fr EXCEPT !.calls[u] = @ + 1,
               !.failed = IF ok THEN @ ELSE @ \cup {u}]

\* and, when it succeeds, in resolver_log (which stops counting at MaxLogged)
ResolverLogged(u, ok) ==
    resolver_log' =
        [resolver_log EXCEPT ![u] = IF ok /\ @ < MaxLogged THEN @ + 1 ELSE @]

\* prefetch_instruments line 402: with instrument_cache_lock
PrefetchAcquire(t) ==
    /\ pc[t] = "pf_lock"
    /\ instrument_cache_lock = 0
    /\ instrument_cache_lock' = t
    /\ Goto(t, "pf_scan")
    /\ UNCHANGED <<instrument_cache, asset_metadata_cache, account, session, analytics, frame,
                   started, logs>>

\* lines 403-408 and 418: the URLs that are not cached are collected and the
\* lock released; with none the function returns, else one
\* fetch_single_instrument per URL is submitted to the pool.
PrefetchScan(t) ==
    /\ pc[t] = "pf_scan"
    /\ LET urls_to_fetch ==
               {u \in UniqueInstruments(t) : instrument_cache[u] = Absent}
       IN  /\ frame' = [frame EXCEPT ![t].futures =
                   [u \in Urls |-> IF u \in urls_to_fetch THEN "pending"
                                   ELSE "none"]]
           /\ Goto(t, IF urls_to_fetch = {} THEN "po_loop" ELSE "pf_wait")
    /\ instrument_cache_lock' = 0
    /\ UNCHANGED <<instrument_cache, asset_metadata_cache, account, session, analytics, started,
                   logs>>

\* The result of fetch_single_instrument: the symbol, or None when the
\* resolver's failure was caught (lines 411-415).
FetchSingleResult(u, ok) == IF ok THEN SymbolOf(u) ELSE "None"

\* A future that has completed and that as_completed has not yielded yet
Completed(t, u) == frame[t].futures[u] \notin {"none", "pending", "taken"}

\* fetch_single_instrument(url), run by a pool worker
FetchSingleInstrument(t, u) ==
    /\ frame[t].futures[u] = "pending"
    /\ \E ok \in BOOLEAN :
          /\ frame' = [frame EXCEPT ![t] =
                 [ResolverCall(frame[t], u, ok) EXCEPT
                     !.futures[u] = FetchSingleResult(u, ok)]]
          /\ ResolverLogged(u, ok)
    /\ UNCHANGED <<caches, account, session, analytics, pc, response, report, started>>

\* Mutant of SymbolIsTruthy: the test is missing and None is inserted too.
SymbolIsTruthyAlways(result) == TRUE

\* "if symbol:" on a future's result
SymbolIsTruthy(result) == result # "None"

\* The futures as_completed has yet to yield, once the one of u is consumed
StillWaiting(t, u) ==
    \E v \in Urls \ {u} : frame[t].futures[v] \notin {"none", "taken"}

\* for future in as_completed(futures): a result of None is dropped
AsCompletedSkip(t) ==
    /\ pc[t] = "pf_wait"
    /\ \E u \in Urls :
          /\ Completed(t, u)
          /\ ~SymbolIsTruthy(frame[t].futures[u])
          /\ frame' = [frame EXCEPT ![t].futures[u] = "taken"]
          /\ Goto(t, IF StillWaiting(t, u) THEN "pf_wait" ELSE "po_loop")
    /\ UNCHANGED <<caches, account, session, analytics, started, logs>>

\* line 423: for a symbol the lock is taken
AsCompletedAcquire(t) ==
    /\ pc[t] = "pf_wait"
    /\ instrument_cache_lock = 0
    /\ \E u \in Urls :
          /\ Completed(t, u)
          /\ SymbolIsTruthy(frame[t].futures[u])
          /\ frame' = [frame EXCEPT ![t].url = u]
    /\ instrument_cache_lock' = t
    /\ Goto(t, "pf_insert")
    /\ UNCHANGED <<instrument_cache, asset_metadata_cache, account, session, analytics, started,
                   logs>>

\* line 424: instrument_cache[url] = symbol, and the lock is released; after
\* the last future prefetch_instruments returns.
PrefetchInsert(t) ==
    /\ pc[t] = "pf_insert"
    /\ instrument_cache' =
           [instrument_cache EXCEPT
               ![frame[t].url] = frame[t].futures[frame[t].url]]
    /\ instrument_cache_lock' = 0
    /\ frame' = [frame EXCEPT ![t].futures[frame[t].url] = "taken",
                              ![t].url = Absent]
    /\ Goto(t, IF StillWaiting(t, frame[t].url) THEN "pf_wait" ELSE "po_loop")
    /\ UNCHANGED <<asset_metadata_cache, account, session, analytics, started, logs>>

\* The rest of the loop body of process_orders_optimized once
\* get_instrument_symbol has returned symbol: the order is aggregated, or the
\* timestamp's ValueError ends the report.
ContinueOrder(t, symbol) ==
    IF frame[t].orders[frame[t].i].state = "filled"
       /\ ~OrderDateParses(frame[t].orders[frame[t].i])
    THEN Raise(t, "strptime")
    ELSE /\ frame' = [frame EXCEPT ![t] = OrderProcessed(frame[t], symbol)]
         /\ Goto(t, "po_loop")

\* get_instrument_symbol(order['instrument']) line 384, for the next order
GetInstrumentSymbolAcquire(t) ==
    /\ pc[t] = "po_loop"
    /\ frame[t].i <= Len(frame[t].orders)
    /\ instrument_cache_lock = 0
    /\ instrument_cache_lock' = t
    /\ frame' = [frame EXCEPT ![t].url = frame[t].orders[frame[t].i].instrument]
    /\ Goto(t, "gis_check")
    /\ UNCHANGED <<instrument_cache, asset_metadata_cache, account, session, analytics, started,
                   logs>>

\* lines 385-386: a cached symbol is returned, and the lock released
GetInstrumentSymbolCheck(t) ==
    /\ pc[t] = "gis_check"
    /\ instrument_cache_lock' = 0
    /\ IF instrument_cache[frame[t].url] # Absent
       THEN ContinueOrder(t, instrument_cache[frame[t].url])
       ELSE /\ Goto(t, "gis_fetch")
            /\ UNCHANGED frame
    /\ UNCHANGED <<instrument_cache, asset_metadata_cache, account, session, analytics, started,
                   logs>>

\* lines 389-390, outside the lock and outside any try: a failure of the
\* resolver propagates to get_portfolio's handler.
GetInstrumentSymbolFetch(t) ==
    /\ pc[t] = "gis_fetch"
    /\ \E ok \in BOOLEAN :
          /\ ResolverLogged(frame[t].url, ok)
          /\ IF ok
             THEN /\ frame' = [frame EXCEPT ![t] =
                         [ResolverCall(frame[t], frame[t].url, ok) EXCEPT
                             !.symbol = SymbolOf(frame[t].url)]]
                  /\ Goto(t, "gis_lock")
             ELSE Raise(t, "get_instrument_by_url")
    /\ UNCHANGED <<caches, account, session, analytics, started>>

\* Mutant of GetInstrumentSymbolStoreAcquire: the store is made without
\* taking the lock.
GetInstrumentSymbolStoreNoLock(t) ==
    /\ pc[t] = "gis_lock"
    /\ Goto(t, "gis_store")
    /\ UNCHANGED <<caches, account, session, analytics, frame, started, logs>>

\* line 392: with instrument_cache_lock
GetInstrumentSymbolStoreAcquire(t) ==
    /\ pc[t] = "gis_lock"
    /\ instrument_cache_lock = 0
    /\ instrument_cache_lock' = t
    /\ Goto(t, "gis_store")
    /\ UNCHANGED <<instrument_cache, asset_metadata_cache, account, session, analytics, frame,
                   started, logs>>

\* lines 393-395: the symbol is cached, the lock released, the symbol returned
GetInstrumentSymbolStore(t) ==
    /\ pc[t] = "gis_store"
    /\ instrument_cache' =
           [instrument_cache EXCEPT ![frame[t].url] = frame[t].symbol]
    /\ instrument_cache_lock' = 0
    /\ ContinueOrder(t, frame[t].symbol)
    /\ UNCHANGED <<asset_metadata_cache, account, session, analytics, started, logs>>

\* The order loop is over and process_orders_optimized returns; get_portfolio
\* lines 316-331: the rates and investments (no exception leaves
\* calculate_xirr_investments), then fetch_sp500_history, an external call
\* that may raise, and the benchmark, history and cash-flow sections.
Analytics(t) ==
    /\ pc[t] = "po_loop"
    /\ frame[t].i > Len(frame[t].orders)
    /\ \/ /\ frame' = [frame EXCEPT
                 ![t].investments =
                     [s \in Symbols |->
                         IF s \in account_holdings
                         THEN Investment(frame[t].individual_orders, s)
                         ELSE 0],
                 ![t].orders = <<>>, ![t].i = 1, ![t].symbol = Absent,
                 ![t].futures = [u \in Urls |-> "none"],
                 ![t].calls = [u \in Urls |-> 0], ![t].failed = {}]
          /\ Goto(t, "meta_scan")
       \/ Raise(t, "fetch_sp500_history")
    /\ UNCHANGED <<caches, account, session, analytics, started, logs>>

\* fetch_asset_metadata_batch lines 522-528: no lock; the symbols that are not
\* cached are submitted to the pool.
FetchAssetMetadataBatch(t) ==
    /\ pc[t] = "meta_scan"
    /\ LET symbols_to_fetch ==
               {s \in account_holdings : asset_metadata_cache[s] = NoMetadata}
       IN  /\ frame' = [frame EXCEPT ![t].meta_futures =
                   [s \in Symbols |-> IF s \in symbols_to_fetch THEN "queued"
                                      ELSE "none"]]
           /\ Goto(t, IF symbols_to_fetch = {} THEN "combine" ELSE "meta_wait")
    /\ UNCHANGED <<caches, account, session, analytics, started, logs>>

\* fetch_asset_metadata_single, run by a pool worker: a symbol cached by now
\* is returned from the cache (lines 489-490); else the external lookup is
\* made, and its failure is swallowed: the default metadata is returned like
\* a fetched one (lines 492-517).
FetchAssetMetadataSingle(t, s) ==
    /\ frame[t].meta_futures[s] = "queued"
    /\ IF asset_metadata_cache[s] # NoMetadata
       THEN frame' = [frame EXCEPT
                   ![t].meta_futures[s] = "ready",
                   ![t].meta_results[s] = asset_metadata_cache[s]]
       ELSE \E ok \in BOOLEAN :
               frame' = [frame EXCEPT
                   ![t].meta_futures[s] = "ready",
                   ![t].meta_results[s] = MetadataFrom(s, ok)]
    /\ UNCHANGED <<caches, account, session, analytics, pc, response, report, started, logs>>

\* lines 530-532: asset_metadata_cache[symbol] = metadata for each future as
\* it completes, with no lock; after the last one the batch returns.
MetadataStore(t) ==
    /\ pc[t] = "meta_wait"
    /\ \E s \in Symbols :
          /\ frame[t].meta_futures[s] = "ready"
          /\ asset_metadata_cache' =
                 [asset_metadata_cache EXCEPT ![s] = frame[t].meta_results[s]]
          /\ frame' = [frame EXCEPT ![t].meta_futures[s] = "none",
                                    ![t].meta_results[s] = NoMetadata]
          /\ Goto(t, IF \E r \in Symbols \ {s} :
                            frame[t].meta_futures[r] # "none"
                     THEN "meta_wait" ELSE "combine")
    /\ UNCHANGED <<instrument_cache, instrument_cache_lock, account, session, analytics, started,
                   logs>>

\* ------------------------------------- calculate_xirr_investments, stepwise
\* pyxirr's xirr(dates, amounts), an external solver, stands as an oracle: it
\* raises when the flows do not change sign, or when the root search of this
\* call does not converge (float(None) then raises); else it returns a rate
\* that depends on the series alone (here its undiscounted net gain).
MixedSigns(amounts) ==
    \E a, b \in 1..Len(amounts) : amounts[a] < 0 /\ amounts[b] > 0

Xirr(diverges, dates, amounts) ==
    [raised |-> ~MixedSigns(amounts) \/ diverges, value |-> SumSeq(amounts)]

\* try: float(xirr(...)) except Exception: 0.0
RateOrZero(solved) == IF solved.raised THEN 0 ELSE solved.value

\* individual_orders.get(symbol, [[], []])[0]
DatesFor(io, symbol) ==
    IF HasKey(io, symbol) THEN io.dates[symbol] ELSE <<>>

\* The list objects the function handles: a list of the map is known by its
\* symbol, any other list (a literal, a copy) is fresh.
FreshList == "fresh"

\* individual_orders.get(symbol, [[], []]): the symbol's own lists, or the
\* lists of the default, which is no part of the map
SymbolOrdersRef(io, symbol) == IF HasKey(io, symbol) THEN symbol ELSE FreshList

\* Mutant of ListCopy: the list itself instead of a copy.
ListCopyAliased(ref) == ref

\* list.copy(): a new list object
ListCopy(ref) == FreshList

\* The map after dates_ref.append(date) and amounts_ref.append(amount): only
\* a list of the map changes the map.
AppendedTo(io, dates_ref, amounts_ref, date, amount) ==
    [io EXCEPT
        !.dates = [s \in Symbols |->
                      IF s = dates_ref THEN Append(@[s], date) ELSE @[s]],
        !.amounts = [s \in Symbols |->
                        IF s = amounts_ref THEN Append(@[s], amount)
                        ELSE @[s]]]

\* Mutant of XirrHoldingStep: no try around the solve, so that its exception
\* leaves the function.
XirrHoldingStepUncaught(c) ==
    LET item == c.stocks_data[c.k]
        solved == Xirr(c.k \in c.diverges,
                       Append(DatesFor(c.individual_orders, item.Symbol),
                              Today),
                       Append(AmountsFor(c.individual_orders, item.Symbol),
                              item.CurrentValue))
        ref == SymbolOrdersRef(c.individual_orders, item.Symbol)
        appended == AppendedTo(c.individual_orders, ListCopy(ref),
                               ListCopy(ref), Today, item.CurrentValue)
    IN  IF solved.raised
        THEN [c EXCEPT !.individual_orders = appended, !.pc = "raised"]
        ELSE [c EXCEPT
                 !.individual_orders = appended,
                 !.investments =
                     Append(@, Investment(c.individual_orders, item.Symbol)),
                 !.xirr_values = Append(@, solved.value),
                 !.k = @ + 1]

\* lines 551-569 for the holding at index k: the investment is appended, the
\* terminal flow is appended to copies of the symbol's lists (the map keeps
\* what the appends leave in its own lists), and the rate of the copies, or
\* 0.0, is appended.
XirrHoldingStep(c) ==
    LET item == c.stocks_data[c.k]
        dates_for_symbol == DatesFor(c.individual_orders, item.Symbol)
        amounts_for_symbol == AmountsFor(c.individual_orders, item.Symbol)
        ref == SymbolOrdersRef(c.individual_orders, item.Symbol)
        dates_copy == Append(dates_for_symbol, Today)
        amounts_copy == Append(amounts_for_symbol, item.CurrentValue)
    IN  [c EXCEPT
            !.individual_orders =
                AppendedTo(@, ListCopy(ref), ListCopy(ref), Today,
                           item.CurrentValue),
            !.investments =
                Append(@, Investment(c.individual_orders, item.Symbol)),
            !.xirr_values =
                Append(@, RateOrZero(Xirr(c.k \in c.diverges, dates_copy,
                                          amounts_copy))),
            !.k = @ + 1]

\* lines 575-577: every symbol's lists, concatenated in the map's key order
\* into lists of the function's own
RECURSIVE AllDates(_, _)
AllDates(io, k) ==
    IF k > Len(io.keys) THEN <<>>
    ELSE io.dates[io.keys[k]] \o AllDates(io, k + 1)

RECURSIVE AllAmounts(_, _)
AllAmounts(io, k) ==
    IF k > Len(io.keys) THEN <<>>
    ELSE io.amounts[io.keys[k]] \o AllAmounts(io, k + 1)

\* sum([s['Current Value'] for s in stocks_data])
RECURSIVE TotalCurrentValue(_, _)
TotalCurrentValue(stocks_data, k) ==
    IF k > Len(stocks_data) THEN 0
    ELSE stocks_data[k].CurrentValue + TotalCurrentValue(stocks_data, k + 1)

\* lines 571-588: the overall rate over all flows plus the total current
\* value, or 0.0, and the return
XirrOverallStep(c) ==
    LET all_dates == Append(AllDates(c.individual_orders, 1), Today)
        all_amounts == Append(AllAmounts(c.individual_orders, 1),
                              TotalCurrentValue(c.stocks_data, 1))
    IN  [c EXCEPT
            !.overall_xirr =
                RateOrZero(Xirr(Len(c.stocks_data) + 1 \in c.diverges,
                                all_dates, all_amounts)),
            !.pc = "returned"]

XirrHolding ==
    /\ xirr_call.pc = "loop"
    /\ xirr_call.k <= Len(xirr_call.stocks_data)
    /\ xirr_call' = XirrHoldingStep(xirr_call)
    /\ UNCHANGED <<caches, account, session, pc, frame, response, report, started,
                   logs,
                   sp500_call, hist_call, cashflow_call>>

XirrOverall ==
    /\ xirr_call.pc = "loop"
    /\ xirr_call.k > Len(xirr_call.stocks_data)
    /\ xirr_call' = XirrOverallStep(xirr_call)
    /\ UNCHANGED <<caches, account, session, pc, frame, response, report, started,
                   logs,
                   sp500_call, hist_call, cashflow_call>>

\* ------------------------------------ calculate_sp500_comparison_optimized
\* Amounts that the code divides are kept as fractions <<numerator,
\* denominator>> with a positive denominator.
RAdd(x, y) == <<x[1] * y[2] + y[1] * x[2], x[2] * y[2]>>
RMul(x, y) == <<x[1] * y[1], x[2] * y[2]>>

\* relativedelta(today, start_date): years * 12 + months, the whole months
\* from start_date to today
WholeMonths(start_date) ==
    IF start_date > Today THEN 0 - ((start_date - Today) \div MonthDays)
    ELSE (Today - start_date) \div MonthDays

\* hist[hist.index >= date_str]: the rows on or after the date
RowsFrom(hist, date) == SelectSeq(hist, LAMBDA row : row.date >= date)

\* line 606: monthly_sip = total_investment / total_months
MonthlySip(c) == <<c.total_investment, c.total_months>>

\* shares_owned and total_invested after the purchases made so far
RECURSIVE SharesOwned(_, _)
SharesOwned(c, k) ==
    IF k > Len(c.purchases) THEN <<0, 1>>
    ELSE RAdd(RMul(MonthlySip(c), <<1, c.purchases[k].price>>),
              SharesOwned(c, k + 1))

TotalInvested(c) == RMul(<<Len(c.purchases), 1>>, MonthlySip(c))

\* Mutant of Sp500EnterStep: the guard is total_investment < 0.
Sp500EnterStepStrict(c) ==
    IF c.total_investment < 0 \/ c.hist = <<>>
    THEN [c EXCEPT !.result = "None", !.pc = "returned"]
    ELSE [c EXCEPT
             !.total_months = IF WholeMonths(c.start_date) = 0 THEN 1
                              ELSE WholeMonths(c.start_date),
             !.current_date = c.start_date,
             !.pc = "loop"]

\* lines 593-611: the null result for no investment or no price history,
\* else the months elapsed, floored at 1
Sp500EnterStep(c) ==
    IF c.total_investment <= 0 \/ c.hist = <<>>
    THEN [c EXCEPT !.result = "None", !.pc = "returned"]
    ELSE [c EXCEPT
             !.total_months = IF WholeMonths(c.start_date) = 0 THEN 1
                              ELSE WholeMonths(c.start_date),
             !.current_date = c.start_date,
             !.pc = "loop"]

\* Mutant of Sp500MonthStep: the cursor moves only when a price was found.
Sp500MonthStepStalls(c) ==
    LET month_data == RowsFrom(c.hist, c.current_date)
    IN  IF month_data # <<>>
        THEN [c EXCEPT
                 !.purchases = Append(@, [date |-> c.current_date,
                                          price |-> month_data[1].close]),
                 !.current_date = @ + MonthDays]
        ELSE c

\* lines 616-633, one iteration: a purchase at the first price on or after
\* current_date if there is one, and current_date moves one month on
Sp500MonthStep(c) ==
    LET month_data == RowsFrom(c.hist, c.current_date)
    IN  [c EXCEPT
            !.purchases =
                IF month_data # <<>>
                THEN Append(@, [date |-> c.current_date,
                                price |-> month_data[1].close])
                ELSE @,
            !.current_date = @ + MonthDays]

\* sip_dates and sip_amounts with the final value appended (lines 629-630
\* and 640-641); of an amount the solver is given the sign
SipDates(c) ==
    [k \in 1..Len(c.purchases) |-> c.purchases[k].date] \o <<Today>>

SipAmountSigns(c) ==
    [k \in 1..Len(c.purchases) |-> -1]
    \o <<IF SharesOwned(c, 1)[1] > 0 THEN 1 ELSE 0>>

\* lines 635-666: the final value, the rate or 0.0, and the result row
Sp500FinishStep(c) ==
    LET current_price == c.hist[Len(c.hist)].close
        current_value == RMul(SharesOwned(c, 1), <<current_price, 1>>)
    IN  [c EXCEPT
            !.sp500_xirr =
                RateOrZero(Xirr(c.diverges, SipDates(c), SipAmountSigns(c))),
            !.current_value = current_value,
            !.result = "row",
            !.pc = "returned"]

Sp500Enter ==
    /\ sp500_call.pc = "start"
    /\ sp500_call' = Sp500EnterStep(sp500_call)
    /\ UNCHANGED <<caches, account, session, pc, frame, response, report, started,
                   logs,
                   xirr_call, hist_call, cashflow_call>>

Sp500Month ==
    /\ sp500_call.pc = "loop"
    /\ sp500_call.current_date <= Today
    /\ sp500_call' = Sp500MonthStep(sp500_call)
    /\ UNCHANGED <<caches, account, session, pc, frame, response, report, started,
                   logs,
                   xirr_call, hist_call, cashflow_call>>

Sp500Finish ==
    /\ sp500_call.pc = "loop"
    /\ sp500_call.current_date > Today
    /\ sp500_call' = Sp500FinishStep(sp500_call)
    /\ UNCHANGED <<caches, account, session, pc, frame, response, report, started,
                   logs,
                   xirr_call, hist_call, cashflow_call>>

\* ------------------------------------ get_historical_performance_optimized
WeekDays == 7      \* timedelta(days=7)

Abs(x) == IF x < 0 THEN 0 - x ELSE x

\* zip(all_dates, all_amounts)
Zip(dates, amounts) ==
    [k \in 1..(IF Len(dates) < Len(amounts) THEN Len(dates)
               ELSE Len(amounts)) |->
        [date |-> dates[k], amount |-> amounts[k]]]

\* One more row put into a list sorted by date, after the rows that do not
\* come later: list.sort and sorted are stable.
InsertByDate(row, rows) ==
    LET k == Cardinality({j \in 1..Len(rows) : rows[j].date <= row.date})
    IN  SubSeq(rows, 1, k) \o <<row>> \o SubSeq(rows, k + 1, Len(rows))

\* sorted(rows, key=lambda x: x[0]) and rows.sort(key=lambda row: row['date'])
RECURSIVE SortedByDate(_)
SortedByDate(rows) ==
    IF rows = <<>> THEN <<>>
    ELSE InsertByDate(rows[Len(rows)],
                      SortedByDate(SubSeq(rows, 1, Len(rows) - 1)))

\* lines 672-706: nothing without price history; else the transactions of
\* all symbols sorted by date and the walk's variables
HistEnterStep(c) ==
    IF c.sp500_hist = <<>> THEN [c EXCEPT !.pc = "returned"]
    ELSE [c EXCEPT
             !.transactions =
                 SortedByDate(Zip(AllDates(c.individual_orders, 1),
                                  AllAmounts(c.individual_orders, 1))),
             !.current_date = c.start_date,
             !.pc = "loop"]

\* Mutant of ApplyTransaction: processed_transaction_dates is not consulted.
ApplyTransactionUnseen(c, tr) ==
    LET rows == RowsFrom(c.sp500_hist, tr.date)
    IN  IF tr.date <= c.current_date
        THEN [c EXCEPT
                 !.cumulative_investment = @ + Abs(tr.amount),
                 !.processed_transaction_dates = @ \cup {tr.date},
                 !.sp500_shares =
                     IF rows # <<>>
                     THEN RAdd(@, <<Abs(tr.amount), rows[1].close>>) ELSE @,
                 !.sp500_investment =
                     IF rows # <<>> THEN @ + Abs(tr.amount) ELSE @]
        ELSE c

\* lines 713-724 for one transaction: applied when its date has been reached
\* and is not in processed_transaction_dates; shares are bought at the first
\* price on or after the transaction date, if there is one.
ApplyTransaction(c, tr) ==
    LET rows == RowsFrom(c.sp500_hist, tr.date)
    IN  IF tr.date <= c.current_date
           /\ tr.date \notin c.processed_transaction_dates
        THEN [c EXCEPT
                 !.cumulative_investment = @ + Abs(tr.amount),
                 !.processed_transaction_dates = @ \cup {tr.date},
                 !.sp500_shares =
                     IF rows # <<>>
                     THEN RAdd(@, <<Abs(tr.amount), rows[1].close>>) ELSE @,
                 !.sp500_investment =
                     IF rows # <<>> THEN @ + Abs(tr.amount) ELSE @]
        ELSE c

\* line 713: for trans_date, amount in transactions
RECURSIVE ApplyTransactions(_, _)
ApplyTransactions(c, k) ==
    IF k > Len(c.transactions) THEN c
    ELSE ApplyTransactions(ApplyTransaction(c, c.transactions[k]), k + 1)

\* Mutant of Sampled: a sample also when no price is on or after the cursor.
SampledUnpriced(c) ==
    LET rows == RowsFrom(c.sp500_hist, c.current_date)
    IN  IF c.cumulative_investment > 0
        THEN [c EXCEPT !.historical_data =
                 Append(@, [date |-> c.current_date,
                            portfolio |-> c.cumulative_investment,
                            sp500 |-> IF rows # <<>>
                                      THEN RMul(c.sp500_shares,
                                                <<rows[1].close, 1>>)
                                      ELSE <<0, 1>>,
                            portfolioInvestment |-> c.cumulative_investment,
                            sp500Investment |-> c.sp500_investment])]
        ELSE c

\* Mutant of Sampled: a sample whenever there is a price.
SampledAlways(c) ==
    LET rows == RowsFrom(c.sp500_hist, c.current_date)
    IN  IF rows # <<>>
        THEN [c EXCEPT !.historical_data =
                 Append(@, [date |-> c.current_date,
                            portfolio |-> c.cumulative_investment,
                            sp500 |-> RMul(c.sp500_shares,
                                           <<rows[1].close, 1>>),
                            portfolioInvestment |-> c.cumulative_investment,
                            sp500Investment |-> c.sp500_investment])]
        ELSE c

\* lines 727-740: a sample at the first price on or after the cursor, if
\* there is one and capital has been invested
Sampled(c) ==
    LET rows == RowsFrom(c.sp500_hist, c.current_date)
    IN  IF rows # <<>> /\ c.cumulative_investment > 0
        THEN [c EXCEPT !.historical_data =
                 Append(@, [date |-> c.current_date,
                            portfolio |-> c.cumulative_investment,
                            sp500 |-> RMul(c.sp500_shares,
                                           <<rows[1].close, 1>>),
                            portfolioInvestment |-> c.cumulative_investment,
                            sp500Investment |-> c.sp500_investment])]
        ELSE c

\* lines 709-742, one iteration of the weekly walk
HistWeekStep(c) ==
    [Sampled(ApplyTransactions(c, 1)) EXCEPT !.current_date = @ + WeekDays]

HistEnter ==
    /\ hist_call.pc = "start"
    /\ hist_call' = HistEnterStep(hist_call)
    /\ UNCHANGED <<caches, account, session, pc, frame, response, report, started,
                   logs,
                   xirr_call, sp500_call, cashflow_call>>

HistWeek ==
    /\ hist_call.pc = "loop"
    /\ hist_call.current_date <= Today
    /\ hist_call' = HistWeekStep(hist_call)
    /\ UNCHANGED <<caches, account, session, pc, frame, response, report, started,
                   logs,
                   xirr_call, sp500_call, cashflow_call>>

\* line 744: return historical_data
HistReturn ==
    /\ hist_call.pc = "loop"
    /\ hist_call.current_date > Today
    /\ hist_call' = [hist_call EXCEPT !.pc = "returned"]
    /\ UNCHANGED <<caches, account, session, pc, frame, response, report, started,
                   logs,
                   xirr_call, sp500_call, cashflow_call>>

\* ------------------------- get_monthly_cash_flows, get_cash_flow_transactions
\* A date string is a day number when it has the form %Y-%m-%d, which is then
\* its own normal form, and a negative number when strptime rejects it.
NotADate == 0 - 1

\* datetime.strptime(date_str, '%Y-%m-%d') succeeds
ParsesDate(date_str) == date_str >= 0

\* .strftime('%Y-%m'): the month of the day
MonthKey(date_str) == date_str \div MonthDays

\* for symbol, (dates, amounts) in individual_orders.items():
\*     for date_str, amount in zip(dates, amounts): ...
\* the events in the order the loops visit them, from the key at index k on
RECURSIVE Events(_, _)
Events(io, k) ==
    IF k > Len(io.keys) THEN <<>>
    ELSE LET symbol == io.keys[k]
             pairs == Zip(io.dates[symbol], io.amounts[symbol])
         IN  [j \in 1..Len(pairs) |->
                 [date |-> pairs[j].date, amount |-> pairs[j].amount,
                  symbol |-> symbol]]
             \o Events(io, k + 1)

\* except Exception: continue
Parsed(events) == SelectSeq(events, LAMBDA e : ParsesDate(e.date))

\* monthly_totals[month_key]['buy'] and ['sell'] after the first loop
RECURSIVE BuyTotal(_, _)
BuyTotal(events, month_key) ==
    IF events = <<>> THEN 0
    ELSE (IF MonthKey(Head(events).date) = month_key
             /\ Head(events).amount < 0
          THEN Abs(Head(events).amount) ELSE 0)
         + BuyTotal(Tail(events), month_key)

RECURSIVE SellTotal(_, _)
SellTotal(events, month_key) ==
    IF events = <<>> THEN 0
    ELSE (IF MonthKey(Head(events).date) = month_key
             /\ ~(Head(events).amount < 0)
          THEN Head(events).amount ELSE 0)
         + SellTotal(Tail(events), month_key)

\* sorted(monthly_totals.keys())
RECURSIVE SortedKeys(_)
SortedKeys(ks) ==
    IF ks = {} THEN <<>>
    ELSE LET least == CHOOSE m \in ks : \A n \in ks : m <= n
         IN  <<least>> \o SortedKeys(ks \ {least})

\* Mutant of MonthlyRow: net is buy - sell.
MonthlyRowNetOfBuy(events, month_key) ==
    [month |-> month_key,
     buy |-> BuyTotal(events, month_key),
     sell |-> SellTotal(events, month_key),
     net |-> BuyTotal(events, month_key) - SellTotal(events, month_key)]

\* lines 768-779: the row of one month
MonthlyRow(events, month_key) ==
    [month |-> month_key,
     buy |-> BuyTotal(events, month_key),
     sell |-> SellTotal(events, month_key),
     net |-> SellTotal(events, month_key) - BuyTotal(events, month_key)]

GetMonthlyCashFlows(individual_orders) ==
    LET events == Parsed(Events(individual_orders, 1))
        months == SortedKeys({MonthKey(events[k].date) :
                                 k \in 1..Len(events)})
    IN  [k \in 1..Len(months) |-> MonthlyRow(events, months[k])]

\* Mutant of GetCashFlowTransactions: the rows are not sorted.
GetCashFlowTransactionsUnsorted(individual_orders) ==
    Parsed(Events(individual_orders, 1))

\* lines 792-808: a row per event whose date parses, sorted by date
GetCashFlowTransactions(individual_orders) ==
    SortedByDate(Parsed(Events(individual_orders, 1)))

MonthlyCashFlows ==
    /\ cashflow_call.pc = "start"
    /\ cashflow_call' =
           [cashflow_call EXCEPT
               !.monthly_cash_flows =
                   GetMonthlyCashFlows(cashflow_call.individual_orders),
               !.pc = "monthly"]
    /\ UNCHANGED <<caches, account, session, pc, frame, response, report, started,
                   logs,
                   xirr_call, sp500_call, hist_call>>

CashFlowTransactions ==
    /\ cashflow_call.pc = "monthly"
    /\ cashflow_call' =
           [cashflow_call EXCEPT
               !.cash_flow_transactions =
                   GetCashFlowTransactions(cashflow_call.individual_orders),
               !.pc = "returned"]
    /\ UNCHANGED <<caches, account, session, pc, frame, response, report, started,
                   logs,
                   xirr_call, sp500_call, hist_call>>

\* -------------------------------------------------------------- the session
\* The handlers /api/logout, /api/login and /api/check-session, each served
\* by the first request thread that is free. They share the three session
\* globals with get_portfolio and with one another, and take no lock: every
\* assignment to a global is a step of its own.
FreeThread(t) ==
    /\ pc[t] \in {"idle", "done"}
    /\ \A other \in Threads : other < t => pc[other] \notin {"idle", "done"}

\* return jsonify(...) of a session handler
SessionRespond(t, status, message) ==
    /\ pc' = [pc EXCEPT ![t] = "done"]
    /\ response' = [response EXCEPT ![t] = Response(status, message)]
    /\ report' = [report EXCEPT ![t] = NoReport]

\* logout lines 815-816 and 826: rh.logout() returns, or raises into the
\* except clause; both branches go on to clear the globals.
LogoutCall(t) ==
    /\ FreeThread(t)
    /\ \E outcome \in {"returned", "raised"} :
           logout_log' = [logout_log EXCEPT ![t] = outcome]
    /\ Goto(t, "lo_flag")
    /\ UNCHANGED <<caches, account, analytics, frame, started, logs,
                   logged_in, login_token, session_start_time>>

\* lines 817 and 828: logged_in = False
LogoutFlag(t) ==
    /\ pc[t] = "lo_flag"
    /\ logged_in' = FALSE
    /\ Goto(t, "lo_token")
    /\ UNCHANGED <<caches, account, analytics, frame, started, logs,
                   login_token, session_start_time, logout_log>>

\* lines 818 and 829: login_token = None
LogoutToken(t) ==
    /\ pc[t] = "lo_token"
    /\ login_token' = "None"
    /\ Goto(t, "lo_time")
    /\ UNCHANGED <<caches, account, analytics, frame, started, logs,
                   logged_in, session_start_time, logout_log>>

\* lines 819-825 and 830-836: session_start_time = None, and the response,
\* which reports success in both branches
LogoutReturn(t) ==
    /\ pc[t] = "lo_time"
    /\ session_start_time' = "None"
    /\ SessionRespond(t, "logout", "Logged out successfully")
    /\ UNCHANGED <<caches, account, analytics, frame, started, logs,
                   logged_in, login_token, logout_log>>

\* What the remote login yields: fields missing in the request, an access
\* token, a challenge, a detail message, anything else, or an exception
LoginResults ==
    {"missing", "access_token", "challenge", "detail", "other", "raised"}

\* login lines 181-212 and 225-259: only a result with an access token goes
\* on to open the session; every other outcome is answered 400, 401 or 500
\* with the globals untouched.
LoginCall(t) ==
    /\ FreeThread(t)
    /\ \E login_result \in LoginResults :
           IF login_result = "access_token"
           THEN Goto(t, "li_flag")
           ELSE SessionRespond(t, "login_refused", "")
    /\ UNCHANGED <<caches, account, session, analytics, frame, started, logs>>

\* line 214: logged_in = True
LoginFlag(t) ==
    /\ pc[t] = "li_flag"
    /\ logged_in' = TRUE
    /\ Goto(t, "li_token")
    /\ UNCHANGED <<caches, account, analytics, frame, started, logs,
                   login_token, session_start_time, logout_log>>

\* line 215: login_token = login_result
LoginToken(t) ==
    /\ pc[t] = "li_token"
    /\ login_token' = "token"
    /\ Goto(t, "li_time")
    /\ UNCHANGED <<caches, account, analytics, frame, started, logs,
                   logged_in, session_start_time, logout_log>>

\* lines 216-223: update_session_start_time() (line 109) and the response
LoginReturn(t) ==
    /\ pc[t] = "li_time"
    /\ session_start_time' = "set"
    /\ SessionRespond(t, "login", "Login successful")
    /\ UNCHANGED <<caches, account, analytics, frame, started, logs,
                   logged_in, login_token, logout_log>>

\* get_session_info() lines 91-103: None unless logged in with a start time
\* that the timeout has not passed
SessionInfo(expired) ==
    logged_in /\ session_start_time # "None" /\ ~expired

\* check_session lines 126-137: a live session is reported; one that has
\* expired or lost its start time is closed (logged_in = False), and like a
\* closed one goes on to look for a stored session.
CheckSessionEnter(t) ==
    /\ FreeThread(t)
    /\ \E expired \in BOOLEAN :
           IF SessionInfo(expired)
           THEN /\ SessionRespond(t, "session", "logged_in")
                /\ UNCHANGED logged_in
           ELSE /\ logged_in' = FALSE
                /\ Goto(t, "cs_existing")
    /\ UNCHANGED <<caches, account, analytics, frame, started, logs,
                   login_token, session_start_time, logout_log>>

\* check_existing_session lines 43-72 (called at line 140): a stored session
\* that is young enough and that the broker accepts sets logged_in = True
\* (line 62); otherwise the handler reports that nobody is logged in (lines
\* 148-152).
CheckExistingSession(t) ==
    /\ pc[t] = "cs_existing"
    /\ \E valid \in BOOLEAN :
           IF valid
           THEN /\ logged_in' = TRUE
                /\ Goto(t, "cs_time")
           ELSE /\ SessionRespond(t, "session", "logged_out")
                /\ UNCHANGED logged_in
    /\ UNCHANGED <<caches, account, analytics, frame, started, logs,
                   login_token, session_start_time, logout_log>>

\* line 63: session_start_time = file_mtime, and the response of lines
\* 141-146
CheckSessionReturn(t) ==
    /\ pc[t] = "cs_time"
    /\ session_start_time' = "set"
    /\ SessionRespond(t, "session", "logged_in")
    /\ UNCHANGED <<caches, account, analytics, frame, started, logs,
                   logged_in, login_token, logout_log>>

\* ---------------------------------------------------- the report's sections
\* holdings.items() in the order of the snapshot, and data['equity']
SymbolOrder == <<"A", "B">>

Equity(symbol) == IF symbol = "A" THEN 3 ELSE 1

\* lines 274-286: stocks_data
StocksData(holdings) ==
    LET symbols == SelectSeq(SymbolOrder, LAMBDA sym : sym \in holdings)
    IN  [k \in 1..Len(symbols) |->
            [Symbol |-> symbols[k], CurrentValue |-> Equity(symbols[k])]]

\* line 474: min(all_dates) if all_dates else datetime.today()
EarliestDate(all_dates) ==
    IF all_dates = <<>> THEN Today
    ELSE CHOOSE d \in {all_dates[k] : k \in 1..Len(all_dates)} :
             \A k \in 1..Len(all_dates) : d <= all_dates[k]

\* fetch_sp500_history(start_date): of the index's closes, those from
\* start_date to the day before today
MarketHistory ==
    <<[date |-> 1, close |-> 1], [date |-> Today - 1, close |-> 2]>>

FetchSp500History(start_date) ==
    SelectSeq(MarketHistory,
              LAMBDA row : row.date >= start_date /\ row.date < Today)

\* The calls of lines 316, 322 and 325, run to their return
RECURSIVE RunXirr(_)
RunXirr(c) ==
    IF c.pc # "loop" THEN c
    ELSE IF c.k <= Len(c.stocks_data) THEN RunXirr(XirrHoldingStep(c))
    ELSE RunXirr(XirrOverallStep(c))

RECURSIVE RunSp500(_)
RunSp500(c) ==
    IF c.pc = "start" THEN RunSp500(Sp500EnterStep(c))
    ELSE IF c.pc # "loop" THEN c
    ELSE IF c.current_date <= Today THEN RunSp500(Sp500MonthStep(c))
    ELSE RunSp500(Sp500FinishStep(c))

RECURSIVE RunHist(_)
RunHist(c) ==
    IF c.pc = "start" THEN RunHist(HistEnterStep(c))
    ELSE IF c.pc # "loop" THEN c
    ELSE IF c.current_date <= Today THEN RunHist(HistWeekStep(c))
    ELSE [c EXCEPT !.pc = "returned"]

\* lines 316-373: the sections computed from the holdings and the aggregated
\* orders (the one map object, as calculate_xirr_investments leaves it, goes
\* to the later calls), and the body that combines them with each holding's
\* metadata
PortfolioReport(fr, holdings, metadata) ==
    LET stocks_data == StocksData(holdings)
        earliest_date == EarliestDate(fr.all_dates)
        x == RunXirr([NoXirrCall EXCEPT
                         !.pc = "loop", !.stocks_data = stocks_data,
                         !.individual_orders = fr.individual_orders])
        individual_orders == x.individual_orders
        sp500_hist == FetchSp500History(earliest_date)
        total_investment == SumSeq(x.investments)
        total_current_value == TotalCurrentValue(stocks_data, 1)
        sp == RunSp500([NoSp500Call EXCEPT
                           !.pc = "start", !.start_date = earliest_date,
                           !.total_investment = total_investment,
                           !.hist = sp500_hist])
        h == RunHist([NoHistCall EXCEPT
                         !.pc = "start",
                         !.individual_orders = individual_orders,
                         !.start_date = earliest_date,
                         !.sp500_hist = sp500_hist])
    IN  [success |-> TRUE,
         stocks |->
             [k \in 1..Len(stocks_data) |->
                 [symbol |-> stocks_data[k].Symbol,
                  investment |-> x.investments[k],
                  currentValue |-> stocks_data[k].CurrentValue,
                  xirr |-> x.xirr_values[k],
                  sector |-> metadata[stocks_data[k].Symbol].sector,
                  isEtf |-> metadata[stocks_data[k].Symbol].isEtf]],
         sp500 |->
             IF sp.result = "None" THEN <<>>
             ELSE <<[quantity |-> SharesOwned(sp, 1),
                     investment |-> TotalInvested(sp),
                     currentValue |-> sp.current_value,
                     xirr |-> sp.sp500_xirr]>>,
         historicalData |-> h.historical_data,
         monthlyCashFlows |-> GetMonthlyCashFlows(individual_orders),
         cashFlowTransactions |-> GetCashFlowTransactions(individual_orders),
         totalInvestment |-> total_investment,
         totalCurrentValue |-> total_current_value,
         totalProfitLoss |-> total_current_value - total_investment,
         overallXirr |-> x.overall_xirr]

\* get_portfolio lines 338-373: asset_metadata_cache.get(symbol, default) per
\* holding, and the successful response
Combine(t) ==
    LET metadata ==
            [s \in Symbols |->
                IF s \notin account_holdings THEN NoMetadata
                ELSE IF asset_metadata_cache[s] # NoMetadata
                     THEN asset_metadata_cache[s]
                     ELSE [sector |-> "Uncategorized", isEtf |-> FALSE]]
    IN  /\ pc[t] = "combine"
        /\ frame' = [frame EXCEPT ![t].meta_results = metadata]
        /\ pc' = [pc EXCEPT ![t] = "done"]
        /\ response' = [response EXCEPT ![t] = Response("ok", "")]
        /\ report' = [report EXCEPT ![t] =
               PortfolioReport(frame[t], account_holdings, metadata)]
    /\ UNCHANGED <<caches, account, session, analytics, started, logs>>

\* ----------------------------------------------------------- specification
Next ==
    \E t \in Threads :
        \/ BuildHoldings(t)
        \/ GetAllStockOrders(t)
        \/ PrefetchAcquire(t)
        \/ PrefetchScan(t)
        \/ \E u \in Urls : FetchSingleInstrument(t, u)
        \/ AsCompletedSkip(t)
        \/ AsCompletedAcquire(t)
        \/ PrefetchInsert(t)
        \/ GetInstrumentSymbolAcquire(t)
        \/ GetInstrumentSymbolCheck(t)
        \/ GetInstrumentSymbolFetch(t)
        \/ GetInstrumentSymbolStoreAcquire(t)
        \/ GetInstrumentSymbolStore(t)
        \/ Analytics(t)
        \/ FetchAssetMetadataBatch(t)
        \/ \E s \in Symbols : FetchAssetMetadataSingle(t, s)
        \/ MetadataStore(t)
        \/ Combine(t)

Spec == Init /\ [][Next]_vars

\* --------------------------------------------- one report, fuller orders
\* Order histories as the broker returns them, newest first: a buy filled in
\* two executions on day 1; a buy filled partly on day 1 and completed on
\* day 2, whose last_transaction_at is the day of its last execution; on
\* day 2 a sale, a buy, and an order cancelled after a partial execution.
HistoryOrders ==
    [instrument : Urls, state : {"filled"}, side : {"buy"},
     executions : {<<Fill(1, 1), Fill(1, 2)>>}, ts_day : {1},
     ts_fmt : {"plain"}]
    \cup [instrument : Urls, state : {"filled"}, side : {"buy"},
          executions : {<<Fill(1, 1), Fill(2, 2)>>}, ts_day : {2},
          ts_fmt : {"plain"}]
    \cup [instrument : Urls, state : {"filled"}, side : {"sell"},
          executions : {<<Fill(2, 3)>>}, ts_day : {2}, ts_fmt : {"plain"}]
    \cup [instrument : Urls, state : {"filled"}, side : {"buy"},
          executions : {<<Fill(2, 5)>>}, ts_day : {2}, ts_fmt : {"frac"}]
    \cup [instrument : Urls, state : {"cancelled"}, side : {"buy"},
          executions : {<<Fill(2, 4)>>}, ts_day : {2}, ts_fmt : {"plain"}]

HistoryLists ==
    {ol \in UNION {[1..n -> HistoryOrders] : n \in 0..MaxOrders} :
        \A a, b \in 1..Len(ol) : a < b => ol[a].ts_day >= ol[b].ts_day}

InitOrders ==
    /\ instrument_cache = [u \in Urls |-> Absent]
    /\ instrument_cache_lock = 0
    /\ asset_metadata_cache = [s \in Symbols |-> NoMetadata]
    /\ account_orders \in HistoryLists
    /\ account_holdings \in SUBSET Symbols
    /\ pc = [t \in Threads |-> "idle"]
    /\ frame = [t \in Threads |-> NewFrame]
    /\ response = [t \in Threads |-> [status |-> "none", message |-> ""]]
    /\ report = [t \in Threads |-> NoReport]
    /\ started = 0
    /\ resolver_log = [u \in Urls |-> 0]
    /\ SessionOpen
    /\ xirr_call = NoXirrCall
    /\ sp500_call = NoSp500Call
    /\ hist_call = NoHistCall
    /\ cashflow_call = NoCashFlowCall

\* The reports are made one after the other, by the first request thread.
NextOrders ==
    \E t \in {1} :
        \/ BuildHoldings(t)
        \/ GetAllStockOrders(t)
        \/ PrefetchAcquire(t)
        \/ PrefetchScan(t)
        \/ \E u \in Urls : FetchSingleInstrument(t, u)
        \/ AsCompletedSkip(t)
        \/ AsCompletedAcquire(t)
        \/ PrefetchInsert(t)
        \/ GetInstrumentSymbolAcquire(t)
        \/ GetInstrumentSymbolCheck(t)
        \/ GetInstrumentSymbolFetch(t)
        \/ GetInstrumentSymbolStoreAcquire(t)
        \/ GetInstrumentSymbolStore(t)
        \/ Analytics(t)
        \/ FetchAssetMetadataBatch(t)
        \/ \E s \in Symbols : FetchAssetMetadataSingle(t, s)
        \/ MetadataStore(t)
        \/ Combine(t)

SpecOrders == InitOrders /\ [][NextOrders]_vars

\* ------------------------------------------- the session and the requests
\* The process from its start, nobody logged in, with an account that holds
\* nothing: logins, session checks, logouts and portfolio requests in any
\* interleaving of the request threads.
InitSession ==
    /\ instrument_cache = [u \in Urls |-> Absent]
    /\ instrument_cache_lock = 0
    /\ asset_metadata_cache = [s \in Symbols |-> NoMetadata]
    /\ account_orders = <<>>
    /\ account_holdings = {}
    /\ pc = [t \in Threads |-> "idle"]
    /\ frame = [t \in Threads |-> NewFrame]
    /\ response = [t \in Threads |-> [status |-> "none", message |-> ""]]
    /\ report = [t \in Threads |-> NoReport]
    /\ started = 0
    /\ resolver_log = [u \in Urls |-> 0]
    /\ NoSession
    /\ xirr_call = NoXirrCall
    /\ sp500_call = NoSp500Call
    /\ hist_call = NoHistCall
    /\ cashflow_call = NoCashFlowCall

NextSession ==
    \E t \in Threads :
        \/ LogoutCall(t)
        \/ LogoutFlag(t)
        \/ LogoutToken(t)
        \/ LogoutReturn(t)
        \/ LoginCall(t)
        \/ LoginFlag(t)
        \/ LoginToken(t)
        \/ LoginReturn(t)
        \/ CheckSessionEnter(t)
        \/ CheckExistingSession(t)
        \/ CheckSessionReturn(t)
        \/ RefuseNotLoggedIn(t)
        \/ BuildHoldings(t)

SpecSession == InitSession /\ [][NextSession]_vars

\* ------------------------------------------------ the analytics, by call
\* The inputs of one call of an analytics function: the holdings (symbols
\* distinct, as keys of the holdings map), the aggregated cash flows (a key's
\* dates and amounts of equal length), the benchmark history (dates
\* ascending).
CurrentValues == {0, 3}

StocksDataInputs ==
    {sd \in UNION {[1..n -> [Symbol : Symbols, CurrentValue : CurrentValues]] :
                      n \in 0..Cardinality(Symbols)} :
        \A a, b \in 1..Len(sd) : a # b => sd[a].Symbol # sd[b].Symbol}

FlowPool ==
    {[day |-> 1, amount |-> -2], [day |-> 2, amount |-> 1],
     [day |-> 2, amount |-> -1]}

FlowLists == UNION {[1..n -> FlowPool] : n \in 0..MaxFlows}

KeyOrders ==
    {ks \in UNION {[1..n -> Symbols] : n \in 0..Cardinality(Symbols)} :
        \A a, b \in 1..Len(ks) : a # b => ks[a] # ks[b]}

\* The flows of every symbol, with none for a symbol that is no key
FlowsUnder(ks) ==
    {f \in [Symbols -> FlowLists] :
        \A s \in Symbols :
            f[s] # <<>> => \E k \in 1..Len(ks) : ks[k] = s}

IndividualOrdersInputs ==
    UNION {{[keys |-> ks,
             dates |-> [s \in Symbols |->
                           [k \in 1..Len(fl[s]) |-> fl[s][k].day]],
             amounts |-> [s \in Symbols |->
                           [k \in 1..Len(fl[s]) |-> fl[s][k].amount]]] :
               fl \in FlowsUnder(ks)} : ks \in KeyOrders}

Prices == {1, 2}

HistInputs ==
    {h \in UNION {[1..n -> [date : 0..Today, close : Prices]] :
                     n \in 0..MaxHist} :
        \A a, b \in 1..Len(h) : a < b => h[a].date < h[b].date}

\* A cash-flow map in which the first date of each symbol in bad is a string
\* that is no date
WithBadDates(io, bad) ==
    [io EXCEPT !.dates =
        [s \in Symbols |->
            IF s \in bad /\ io.dates[s] # <<>>
            THEN [io.dates[s] EXCEPT ![1] = NotADate] ELSE io.dates[s]]]

CashFlowInputs ==
    {WithBadDates(io, bad) :
        io \in IndividualOrdersInputs, bad \in SUBSET Symbols}

\* earliest_date: before, on or after the first cash flow, or today when no
\* order is filled
StartDates == {0, 1, 2, Today}

InitAnalytics ==
    /\ instrument_cache = [u \in Urls |-> Absent]
    /\ instrument_cache_lock = 0
    /\ asset_metadata_cache = [s \in Symbols |-> NoMetadata]
    /\ account_orders = <<>>
    /\ account_holdings = {}
    /\ pc = [t \in Threads |-> "idle"]
    /\ frame = [t \in Threads |-> NewFrame]
    /\ response = [t \in Threads |-> [status |-> "none", message |-> ""]]
    /\ report = [t \in Threads |-> NoReport]
    /\ started = 0
    /\ resolver_log = [u \in Urls |-> 0]
    /\ SessionOpen
    /\ \/ /\ xirr_call \in
                {[NoXirrCall EXCEPT !.pc = "loop", !.stocks_data = sd,
                                    !.individual_orders = io,
                                    !.diverges = dv] :
                    sd \in StocksDataInputs, io \in IndividualOrdersInputs,
                    dv \in SUBSET (1..(Cardinality(Symbols) + 1))}
          /\ sp500_call = NoSp500Call
          /\ hist_call = NoHistCall
          /\ cashflow_call = NoCashFlowCall
       \/ /\ xirr_call = NoXirrCall
          /\ hist_call = NoHistCall
          /\ cashflow_call = NoCashFlowCall
          /\ sp500_call \in
                {[NoSp500Call EXCEPT !.pc = "start", !.start_date = sd,
                                     !.total_investment = ti, !.hist = h,
                                     !.diverges = dv] :
                    sd \in 0..Today, ti \in {-1, 0, 2}, h \in HistInputs,
                    dv \in BOOLEAN}
       \/ /\ xirr_call = NoXirrCall
          /\ sp500_call = NoSp500Call
          /\ hist_call = NoHistCall
          /\ cashflow_call \in
                {[NoCashFlowCall EXCEPT !.pc = "start",
                                        !.individual_orders = io] :
                    io \in CashFlowInputs}
       \/ /\ xirr_call = NoXirrCall
          /\ sp500_call = NoSp500Call
          /\ cashflow_call = NoCashFlowCall
          /\ hist_call \in
                {[NoHistCall EXCEPT !.pc = "start", !.individual_orders = io,
                                    !.start_date = sd, !.sp500_hist = h] :
                    io \in IndividualOrdersInputs, sd \in StartDates,
                    h \in HistInputs}

NextAnalytics ==
    \/ XirrHolding
    \/ XirrOverall
    \/ Sp500Enter
    \/ Sp500Month
    \/ Sp500Finish
    \/ HistEnter
    \/ HistWeek
    \/ HistReturn
    \/ MonthlyCashFlows
    \/ CashFlowTransactions

SpecAnalytics == InitAnalytics /\ [][NextAnalytics]_vars

\* ------------------------------------------------ the two date-stepping loops
\* Calls of the two functions that step a cursor date up to today, on any
\* start date, a price history of at most one row and the cash flows of at
\* most one symbol.
LoopHistInputs == {h \in HistInputs : Len(h) <= 1}

LoopOrdersInputs == {io \in IndividualOrdersInputs : Len(io.keys) <= 1}

InitLoops ==
    /\ instrument_cache = [u \in Urls |-> Absent]
    /\ instrument_cache_lock = 0
    /\ asset_metadata_cache = [s \in Symbols |-> NoMetadata]
    /\ account_orders = <<>>
    /\ account_holdings = {}
    /\ pc = [t \in Threads |-> "idle"]
    /\ frame = [t \in Threads |-> NewFrame]
    /\ response = [t \in Threads |-> [status |-> "none", message |-> ""]]
    /\ report = [t \in Threads |-> NoReport]
    /\ started = 0
    /\ resolver_log = [u \in Urls |-> 0]
    /\ SessionOpen
    /\ xirr_call = NoXirrCall
    /\ cashflow_call = NoCashFlowCall
    /\ \/ /\ hist_call = NoHistCall
          /\ sp500_call \in
                {[NoSp500Call EXCEPT !.pc = "start", !.start_date = sd,
                                     !.total_investment = ti, !.hist = h] :
                    sd \in 0..Today, ti \in {0, 2}, h \in LoopHistInputs}
       \/ /\ sp500_call = NoSp500Call
          /\ hist_call \in
                {[NoHistCall EXCEPT !.pc = "start", !.individual_orders = io,
                                    !.start_date = sd, !.sp500_hist = h] :
                    io \in LoopOrdersInputs, sd \in 0..Today,
                    h \in LoopHistInputs}

NextLoops ==
    \/ Sp500Enter
    \/ Sp500Month
    \/ Sp500Finish
    \/ HistEnter
    \/ HistWeek
    \/ HistReturn

\* A call that has been entered runs on until it returns.
SpecLoops == InitLoops /\ [][NextLoops]_vars /\ WF_vars(NextLoops)

\* ------------------------------------------------------------------ claims
\* prefetch_instruments has returned to get_portfolio in thread t and the
\* order loop has not started.
PrefetchReturned(t) == pc[t] = "po_loop" /\ frame[t].i = 1

\* The URLs whose fetch this report's prefetch dispatched, and those of them
\* whose fetch failed
Dispatched(t) == {u \in Urls : frame[t].calls[u] > 0}

\* C1: the external instrument resolver is called successfully at most once
\* per instrument identifier over the life of the process, whatever the
\* interleaving of get_instrument_symbol and prefetch_instruments calls.
C1_FetchedAtMostOnce == \A u \in Urls : resolver_log[u] <= 1

\* C2: when prefetch_instruments returns (it never raises), every fetch it
\* dispatched has completed and been consumed, every identifier whose fetch
\* succeeded is in instrument_cache with the fetched symbol, and an identifier
\* whose fetch failed has no entry.
C2_NoEntryForFailed ==
    \A t \in Threads :
        PrefetchReturned(t) =>
            /\ response[t].status = "none"
            /\ \A u \in Urls : frame[t].futures[u] \in {"none", "taken"}
            /\ \A u \in Dispatched(t) \ frame[t].failed :
                   instrument_cache[u] = SymbolOf(u)
            /\ \A u \in frame[t].failed : instrument_cache[u] = Absent

\* C2 as amended: when prefetch_instruments returns (it never raises), every
\* fetch it dispatched has completed and been consumed, every identifier whose
\* fetch succeeded is in instrument_cache with the fetched symbol, and the call
\* has inserted nothing for an identifier whose fetch failed: such an
\* identifier has an entry only if a successful lookup made by another call
\* on the shared cache has put the symbol there.
C2_PrefetchBarrier ==
    \A t \in Threads :
        PrefetchReturned(t) =>
            /\ response[t].status = "none"
            /\ \A u \in Urls : frame[t].futures[u] \in {"none", "taken"}
            /\ \A u \in Dispatched(t) \ frame[t].failed :
                   instrument_cache[u] = SymbolOf(u)
            /\ \A u \in frame[t].failed :
                   \/ instrument_cache[u] = Absent
                   \/ instrument_cache[u] = SymbolOf(u) /\ resolver_log[u] > 0

\* A prefetch has returned after one fetch succeeded and one failed: the
\* first is cached, the second is not.
C2_Witness ==
    \E t \in Threads :
        /\ PrefetchReturned(t)
        /\ \E u \in Dispatched(t) \ frame[t].failed :
               instrument_cache[u] = SymbolOf(u)
        /\ \E u \in frame[t].failed : instrument_cache[u] = Absent

\* C3: a report never ends with the failure of an instrument lookup: the
\* orders of an identifier that cannot be resolved are left out and the
\* report is produced.
C3_UnresolvedDoesNotAbort ==
    \A t \in Threads : response[t] # Response("error500", "get_instrument_by_url")

\* C4: within one report an identifier whose lookup has failed is looked up
\* exactly once.
C4_NoRetryInCycle ==
    \A t \in Threads : \A u \in frame[t].failed : frame[t].calls[u] = 1

\* C5: a failed lookup is never cached: an entry of instrument_cache or of
\* asset_metadata_cache is always what a successful lookup returned.
C5_FailureNeverCached ==
    /\ \A u \in Urls : instrument_cache[u] \in {Absent, SymbolOf(u)}
    /\ \A s \in Symbols :
           asset_metadata_cache[s] \in {NoMetadata, MetadataFrom(s, TRUE)}

\* The positions at which a thread reads or writes instrument_cache
InstrumentCacheAccess == {"pf_scan", "pf_insert", "gis_check", "gis_store"}

\* C6: a thread reads or writes instrument_cache only while it holds
\* instrument_cache_lock, and the lock is held at no other position: not
\* during get_instrument_symbol's external fetch, and never by a pool worker.
C6_LockDiscipline ==
    /\ instrument_cache_lock \in {0} \cup Threads
    /\ \A t \in Threads :
           pc[t] \in InstrumentCacheAccess <=> instrument_cache_lock = t

\* One thread is fetching outside the lock while another inserts under it.
C6_Witness ==
    \E t, other \in Threads :
        /\ pc[t] = "gis_fetch"
        /\ pc[other] = "gis_store"
        /\ instrument_cache_lock = other

\* The threads about to read or write asset_metadata_cache: a request thread
\* in fetch_asset_metadata_batch or in get_portfolio's combination, and a pool
\* worker entering fetch_asset_metadata_single.
MetadataAccessors ==
    {<<t, "request">> : t \in {r \in Threads :
        \/ pc[r] \in {"meta_scan", "combine"}
        \/ pc[r] = "meta_wait"
           /\ \E s \in Symbols : frame[r].meta_futures[s] = "ready"}}
    \cup {a \in Threads \X Symbols : frame[a[1]].meta_futures[a[2]] = "queued"}

\* C7: accesses to asset_metadata_cache exclude each other: no two threads
\* are at an access of the map at the same time.
C7_MetadataAccessExclusive == Cardinality(MetadataAccessors) <= 1

\* C8: a filled order whose last-transaction timestamp matches neither format
\* does not fail the report.
C8_BadTimestampContained ==
    \A t \in Threads : response[t] # Response("error500", "strptime")

\* The series given to the solver for the holding at index k, and whether that
\* solve fails
HoldingSeries(c, k) ==
    Append(AmountsFor(c.individual_orders, c.stocks_data[k].Symbol),
           c.stocks_data[k].CurrentValue)

HoldingSolveFails(c, k) ==
    ~MixedSigns(HoldingSeries(c, k)) \/ k \in c.diverges

OverallSeries(c) ==
    Append(AllAmounts(c.individual_orders, 1),
           TotalCurrentValue(c.stocks_data, 1))

OverallSolveFails(c) ==
    ~MixedSigns(OverallSeries(c)) \/ Len(c.stocks_data) + 1 \in c.diverges

\* C9: no solver failure leaves calculate_xirr_investments or the benchmark
\* comparison: a holding whose solve fails gets the rate 0.0, and every other
\* holding's rate, every investment and the overall rate are what the
\* holding's own series gives, whichever other solves failed; a failing
\* overall solve and a failing benchmark solve give 0.0.
C9_SolverFailureContained ==
    /\ xirr_call.pc \in {"off", "loop", "returned"}
    /\ sp500_call.pc \in {"off", "start", "loop", "returned"}
    /\ xirr_call.pc = "returned" =>
           /\ Len(xirr_call.xirr_values) = Len(xirr_call.stocks_data)
           /\ Len(xirr_call.investments) = Len(xirr_call.stocks_data)
           /\ \A k \in 1..Len(xirr_call.stocks_data) :
                  /\ xirr_call.xirr_values[k] =
                         IF HoldingSolveFails(xirr_call, k) THEN 0
                         ELSE SumSeq(HoldingSeries(xirr_call, k))
                  /\ xirr_call.investments[k] =
                         0 - SumSeq(AmountsFor(xirr_call.individual_orders,
                                         xirr_call.stocks_data[k].Symbol))
           /\ xirr_call.overall_xirr =
                  IF OverallSolveFails(xirr_call) THEN 0
                  ELSE SumSeq(OverallSeries(xirr_call))
    /\ (sp500_call.pc = "returned" /\ sp500_call.result = "row") =>
           sp500_call.sp500_xirr =
               IF sp500_call.diverges
                  \/ ~MixedSigns(SipAmountSigns(sp500_call))
               THEN 0 ELSE SumSeq(SipAmountSigns(sp500_call))

\* A call has returned in which the first holding's solve did not converge
\* on a series that changes sign, and the second holding has a rate.
C9_Witness ==
    /\ xirr_call.pc = "returned"
    /\ Len(xirr_call.stocks_data) = 2
    /\ 1 \in xirr_call.diverges
    /\ MixedSigns(HoldingSeries(xirr_call, 1))
    /\ xirr_call.xirr_values[1] = 0
    /\ xirr_call.xirr_values[2] # 0
    /\ xirr_call.overall_xirr # 0

\* C10: for every held symbol the investment reported is minus the sum of the
\* symbol's aggregated cash-flow amounts, and 0 for a held symbol that has no
\* entry in the map.
C10_InvestmentIsMinusFlows ==
    \A k \in 1..Len(xirr_call.investments) :
        LET symbol == xirr_call.stocks_data[k].Symbol
        IN  xirr_call.investments[k] =
                IF HasKey(xirr_call.individual_orders, symbol)
                THEN 0 - SumSeq(xirr_call.individual_orders.amounts[symbol])
                ELSE 0

\* A call has returned the investment 3 for a symbol bought for 2 and 1, and
\* 0 for a held symbol with no entry.
C10_Witness ==
    /\ xirr_call.pc = "returned"
    /\ Len(xirr_call.investments) = 2
    /\ xirr_call.investments[1] = 3
    /\ ~HasKey(xirr_call.individual_orders, xirr_call.stocks_data[2].Symbol)
    /\ xirr_call.investments[2] = 0

\* C11: calculate_sp500_comparison_optimized called with total_investment <= 0
\* or with an empty price history never enters the simulation and returns
\* None, whatever the start date: no purchase is made and no rate is solved.
C11_NullResult ==
    (sp500_call.pc # "off"
     /\ (sp500_call.total_investment <= 0 \/ sp500_call.hist = <<>>)) =>
        /\ sp500_call.pc \in {"start", "returned"}
        /\ sp500_call.purchases = <<>>
        /\ sp500_call.total_months = 0
        /\ sp500_call.pc = "returned" => sp500_call.result = "None"

\* A call with total_investment 0 and a price history has returned None.
C11_Witness ==
    /\ sp500_call.pc = "returned"
    /\ sp500_call.total_investment = 0
    /\ sp500_call.hist # <<>>
    /\ sp500_call.start_date < Today
    /\ sp500_call.result = "None"

FirstOfDate(c) ==
    {k \in 1..Len(c.transactions) :
        \A j \in 1..(k - 1) : c.transactions[j].date # c.transactions[k].date}

\* The cursor positions of the iterations the walk has made so far
CursorsVisited(c) ==
    {d \in c.start_date..(c.current_date - 1) :
        (d - c.start_date) % WeekDays = 0}

\* The sum of |amount| over the transactions whose index is in ks
RECURSIVE SumAbs(_, _, _)
SumAbs(c, ks, k) ==
    IF k > Len(c.transactions) THEN 0
    ELSE (IF k \in ks THEN Abs(c.transactions[k].amount) ELSE 0)
         + SumAbs(c, ks, k + 1)

\* C17: in the weekly walk a transaction date is applied at most once: after
\* every iteration the dates applied are those the cursor has reached or
\* passed, and cumulative invested capital (and the capital put into the
\* benchmark) counts for each of them only the first transaction of that
\* date in the date-sorted stream; the other transactions of the date are
\* never added.
C17_DateAppliedOnce ==
    LET c == hist_call
        reached == {k \in FirstOfDate(c) :
                       \E d \in CursorsVisited(c) :
                           c.transactions[k].date <= d}
    IN  c.pc \in {"loop", "returned"} =>
            /\ c.processed_transaction_dates =
                   {c.transactions[k].date : k \in reached}
            /\ c.cumulative_investment = SumAbs(c, reached, 1)
            /\ c.sp500_investment =
                   SumAbs(c, {k \in reached :
                                 RowsFrom(c.sp500_hist,
                                          c.transactions[k].date) # <<>>}, 1)

\* A walk has returned in which three transactions, two of them on the same
\* date, have added capital twice.
C17_Witness ==
    /\ hist_call.pc = "returned"
    /\ Len(hist_call.transactions) = 3
    /\ Cardinality(hist_call.processed_transaction_dates) = 2
    /\ hist_call.transactions[2].date = hist_call.transactions[3].date
    /\ hist_call.cumulative_investment =
           Abs(hist_call.transactions[1].amount)
           + Abs(hist_call.transactions[2].amount)

RECURSIVE SumBuy(_)
SumBuy(rows) == IF rows = <<>> THEN 0 ELSE Head(rows).buy + SumBuy(Tail(rows))

\* The sum of the magnitudes of the negative amounts of a transaction list
RECURSIVE SumOutflows(_)
SumOutflows(rows) ==
    IF rows = <<>> THEN 0
    ELSE (IF Head(rows).amount < 0 THEN Abs(Head(rows).amount) ELSE 0)
         + SumOutflows(Tail(rows))

\* C13: every row of get_monthly_cash_flows has net = sell - buy, and the
\* buy column summed over the months equals the sum of the magnitudes of the
\* negative amounts in what get_cash_flow_transactions returns for the same
\* map.
C13_MonthlyMatchesTransactions ==
    /\ \A k \in 1..Len(cashflow_call.monthly_cash_flows) :
           LET row == cashflow_call.monthly_cash_flows[k]
           IN  row.net = row.sell - row.buy
    /\ cashflow_call.pc = "returned" =>
           SumBuy(cashflow_call.monthly_cash_flows) =
               SumOutflows(cashflow_call.cash_flow_transactions)

\* Both reports have returned for a map with buys in two months, a sale,
\* and an event whose date is no date.
C13_Witness ==
    /\ cashflow_call.pc = "returned"
    /\ Len(cashflow_call.monthly_cash_flows) = 2
    /\ cashflow_call.monthly_cash_flows[1].buy > 0
    /\ cashflow_call.monthly_cash_flows[2].buy > 0
    /\ cashflow_call.monthly_cash_flows[2].sell > 0
    /\ Len(cashflow_call.cash_flow_transactions) <
           Len(Events(cashflow_call.individual_orders, 1))

\* The rows of a list that belong to one symbol and one date, in list order
RowsOf(rows, symbol, date) ==
    SelectSeq(rows, LAMBDA r : r.symbol = symbol /\ r.date = date)

DateStrings == {NotADate} \cup 0..Today

\* C14: get_cash_flow_transactions returns one row per event of every
\* symbol, tagged with the symbol, in ascending date order, and events of one
\* symbol with the same date keep the relative order of the symbol's series.
C14_RowPerEvent ==
    LET rows == cashflow_call.cash_flow_transactions
        events == Events(cashflow_call.individual_orders, 1)
    IN  cashflow_call.pc = "returned" =>
            /\ Len(rows) = Len(events)
            /\ \A k \in 1..(Len(rows) - 1) : rows[k].date <= rows[k + 1].date
            /\ \A symbol \in Symbols : \A date \in DateStrings :
                   RowsOf(rows, symbol, date) = RowsOf(events, symbol, date)

\* C14 as amended: get_cash_flow_transactions returns one row per event whose
\* date string is a date (the others are left out), tagged with the symbol,
\* in ascending date order, and events of one symbol with the same date keep
\* the relative order of the symbol's series.
C14_RowPerParsedEvent ==
    LET rows == cashflow_call.cash_flow_transactions
        events == Parsed(Events(cashflow_call.individual_orders, 1))
    IN  cashflow_call.pc = "returned" =>
            /\ Len(rows) = Len(events)
            /\ \A k \in 1..Len(rows) : ParsesDate(rows[k].date)
            /\ \A k \in 1..(Len(rows) - 1) : rows[k].date <= rows[k + 1].date
            /\ \A symbol \in Symbols : \A date \in DateStrings :
                   RowsOf(rows, symbol, date) = RowsOf(events, symbol, date)

\* The list has been returned for a map whose first symbol has a sale and
\* then a buy on day 2 and whose second symbol has a buy on day 1: the rows
\* are merged by date and the two rows of day 2 keep their order.
C14_Witness ==
    LET rows == cashflow_call.cash_flow_transactions
    IN  /\ cashflow_call.pc = "returned"
        /\ Len(rows) = 3
        /\ rows[1].symbol # rows[2].symbol
        /\ rows[2].symbol = rows[3].symbol
        /\ rows[2].date = rows[3].date
        /\ rows[2].amount > 0
        /\ rows[3].amount < 0
        /\ cashflow_call.individual_orders.keys[1] = rows[2].symbol

\* The cursor positions of the monthly loop: start_date and every month
\* after it up to today
Sp500Cursors(c) ==
    {d \in c.start_date..Today : (d - c.start_date) % MonthDays = 0}

\* C18: when a price was available at every step of the monthly loop, the
\* number of contributions made equals the elapsed-month count that divides
\* the contribution (floored at 1), and the invested amount reported equals
\* the total_investment passed in.
C18_InvestsTotalInvestment ==
    (/\ sp500_call.pc = "returned"
     /\ sp500_call.result = "row"
     /\ Len(sp500_call.purchases) = Cardinality(Sp500Cursors(sp500_call))) =>
        /\ Len(sp500_call.purchases) = sp500_call.total_months
        /\ TotalInvested(sp500_call)[1] =
               sp500_call.total_investment * TotalInvested(sp500_call)[2]

\* C20: both date-stepping loops terminate: every iteration of the monthly
\* loop of calculate_sp500_comparison_optimized and of the 7-day loop of
\* get_historical_performance_optimized moves the cursor forward, whether or
\* not a price was found, and each call returns.
C20_LoopsTerminate ==
    /\ [][/\ (sp500_call.pc = "loop" /\ sp500_call'.pc = "loop") =>
                 sp500_call'.current_date > sp500_call.current_date
          /\ (hist_call.pc = "loop" /\ hist_call'.pc = "loop") =>
                 hist_call'.current_date > hist_call.current_date]_vars
    /\ <>(/\ sp500_call.pc \in {"off", "returned"}
          /\ hist_call.pc \in {"off", "returned"})

\* The monthly loop has ended past today after several iterations, some of
\* which found no price.
C20_Witness ==
    /\ sp500_call.pc = "returned"
    /\ sp500_call.result = "row"
    /\ sp500_call.current_date > Today
    /\ Cardinality(Sp500Cursors(sp500_call)) > 2
    /\ Len(sp500_call.purchases) > 0
    /\ Len(sp500_call.purchases) < Cardinality(Sp500Cursors(sp500_call))

\* C16: when process_orders_optimized has dealt with an order whose state is
\* not "filled", no series and no list of dates has changed and the order's
\* resolved symbol is a key of the map; a filled order appends one event per
\* execution to its symbol's series, and its timestamp.
C16_UnfilledOnlyRegisters ==
    [][\A t \in Threads :
          frame'[t].i = frame[t].i + 1 =>
              LET order == frame[t].orders[frame[t].i]
                  symbol == SymbolOf(order.instrument)
                  before == frame[t].individual_orders
                  after == frame'[t].individual_orders
              IN  /\ HasKey(after, symbol)
                  /\ \A s \in Symbols \ {symbol} :
                         /\ after.dates[s] = before.dates[s]
                         /\ after.amounts[s] = before.amounts[s]
                  /\ IF order.state = "filled"
                     THEN /\ Len(after.dates[symbol]) =
                                 Len(before.dates[symbol])
                                 + Len(order.executions)
                          /\ Len(after.amounts[symbol]) =
                                 Len(before.amounts[symbol])
                                 + Len(order.executions)
                          /\ frame'[t].all_dates =
                                 Append(frame[t].all_dates, order.ts_day)
                     ELSE /\ after.dates[symbol] = before.dates[symbol]
                          /\ after.amounts[symbol] = before.amounts[symbol]
                          /\ frame'[t].all_dates = frame[t].all_dates]_vars

\* The only order processed so far was cancelled after a partial execution:
\* its symbol is a key with empty series.
C16_Witness ==
    \E t \in Threads :
        /\ pc[t] = "po_loop"
        /\ frame[t].i = 2
        /\ frame[t].orders[1].state = "cancelled"
        /\ frame[t].orders[1].executions # <<>>
        /\ frame[t].individual_orders.keys =
               <<SymbolOf(frame[t].orders[1].instrument)>>
        /\ AllAmounts(frame[t].individual_orders, 1) = <<>>
        /\ frame[t].all_dates = <<>>

\* The cash-flow events of a symbol in the n oldest orders of a history
\* given newest first: oldest order first, each filled order's executions in
\* the order given
RECURSIVE SeriesOf(_, _, _)
SeriesOf(newest_first, symbol, n) ==
    IF n = 0 THEN <<>>
    ELSE LET order == newest_first[Len(newest_first) + 1 - n]
         IN  SeriesOf(newest_first, symbol, n - 1)
             \o (IF order.state = "filled"
                    /\ SymbolOf(order.instrument) = symbol
                 THEN [k \in 1..Len(order.executions) |->
                          [date |-> order.executions[k].day,
                           amount |->
                               SignedAmount(order, order.executions[k])]]
                 ELSE <<>>)

\* The orders of the history that thread t's process_orders_optimized has
\* dealt with
OrdersDone(t) ==
    IF pc[t] \in {"meta_scan", "meta_wait", "combine"}
    THEN Len(account_orders) ELSE frame[t].i - 1

\* C19: while and after process_orders_optimized runs on the reversed
\* history, every symbol's series holds the events of the orders dealt with
\* in source chronological order: the events of an older order before those
\* of a newer one, each order's executions in the order given.
C19_SeriesChronological ==
    \A t \in Threads :
        pc[t] \in {"po_loop", "gis_check", "gis_fetch", "gis_lock",
                   "gis_store", "meta_scan", "meta_wait", "combine"} =>
            \A s \in Symbols :
                LET io == frame[t].individual_orders
                IN  /\ Zip(io.dates[s], io.amounts[s]) =
                           SeriesOf(account_orders, s, OrdersDone(t))
                    /\ Len(io.dates[s]) = Len(io.amounts[s])

\* The history lists a sale of day 2 before a buy of day 1 in two
\* executions; the symbol's series has the two buys and then the sale.
C19_Witness ==
    \E t \in Threads :
        /\ pc[t] = "po_loop"
        /\ frame[t].i = 3
        /\ account_orders[1].side = "sell"
        /\ frame[t].individual_orders.keys = <<"A">>
        /\ frame[t].individual_orders.dates["A"] = <<1, 1, 2>>
        /\ frame[t].individual_orders.amounts["A"] = <<-1, -2, 3>>

\* C15: with an empty holdings snapshot a request ends where it began, in a
\* successful response whose totals and overall rate are 0, whose stocks,
\* historicalData, monthlyCashFlows and cashFlowTransactions are empty and
\* whose benchmark row is null (or in the failure of build_holdings itself):
\* no thread goes on to fetch the orders, and neither cache, the lock nor
\* the resolver is touched.
C15_EmptyHoldingsReport ==
    account_holdings = {} =>
        /\ \A t \in Threads :
               /\ pc[t] \in {"idle", "done"}
               /\ frame[t].orders = <<>>
               /\ response[t].status \in {"none", "empty", "error500"}
               /\ response[t].status = "error500" =>
                      response[t].message = "build_holdings"
               /\ response[t].status = "empty" =>
                      /\ report[t].success
                      /\ report[t].stocks = <<>>
                      /\ report[t].sp500 = <<>>
                      /\ report[t].historicalData = <<>>
                      /\ report[t].monthlyCashFlows = <<>>
                      /\ report[t].cashFlowTransactions = <<>>
                      /\ report[t].totalInvestment = 0
                      /\ report[t].totalCurrentValue = 0
                      /\ report[t].totalProfitLoss = 0
                      /\ report[t].overallXirr = 0
        /\ \A t \in Threads :
               (pc[t] = "done" /\ response[t].status # "error500") =>
                   response[t].status = "empty"
        /\ \A u \in Urls : instrument_cache[u] = Absent /\ resolver_log[u] = 0
        /\ \A s \in Symbols : asset_metadata_cache[s] = NoMetadata
        /\ instrument_cache_lock = 0

\* An account with orders but no holdings has been answered with the empty
\* report.
C15_Witness ==
    /\ account_holdings = {}
    /\ Len(account_orders) = MaxOrders
    /\ \E t \in Threads :
           /\ pc[t] = "done"
           /\ response[t].status = "empty"
           /\ report[t].success

\* C21: in every sample emitted by get_historical_performance_optimized the
\* capital put into the benchmark equals the cumulative capital of the
\* portfolio (sp500Investment = portfolioInvestment); and whenever a price is
\* on or after a cursor the walk has passed, every transaction applied so far
\* found a price on or after its own date.
C21_BenchmarkInvestsTheSame ==
    LET c == hist_call
        hd == c.historical_data
    IN  /\ \A k \in 1..Len(hd) :
               hd[k].sp500Investment = hd[k].portfolioInvestment
        /\ \A d \in CursorsVisited(c) :
               RowsFrom(c.sp500_hist, d) # <<>> =>
                   \A k \in 1..Len(c.transactions) :
                       c.transactions[k].date <= d =>
                           RowsFrom(c.sp500_hist,
                                    c.transactions[k].date) # <<>>

\* A walk has returned one sample although a later cursor found no price:
\* the transactions were applied at the first cursor, the history ends
\* before the second.
C21_Witness ==
    /\ hist_call.pc = "returned"
    /\ Len(hist_call.historical_data) = 1
    /\ Cardinality(CursorsVisited(hist_call)) = 2
    /\ Cardinality(hist_call.processed_transaction_dates) = 2
    /\ hist_call.historical_data[1].sp500Investment > 0
    /\ \E d \in CursorsVisited(hist_call) :
           RowsFrom(hist_call.sp500_hist, d) = <<>>

\* The day of every cash-flow event in a series of the aggregated map
EventDays(io) ==
    UNION {{io.dates[s][k] : k \in 1..Len(io.dates[s])} : s \in Symbols}

\* C22: once process_orders_optimized has dealt with every order, the global
\* start date it returns is not later than the date of any cash-flow event
\* of any symbol's series.
C22_StartCoversEvents ==
    \A t \in Threads :
        pc[t] \in {"meta_scan", "meta_wait", "combine"} =>
            \A d \in EventDays(frame[t].individual_orders) :
                EarliestDate(frame[t].all_dates) <= d

\* C23: calculate_xirr_investments leaves the aggregated cash-flow map as it
\* was given: no step of the call changes a symbol's date list or amount
\* list, or the keys.
C23_MapUnchanged ==
    [][xirr_call'.individual_orders = xirr_call.individual_orders]_vars

\* A call has returned the rates of two holdings, the first with flows in
\* the map and a rate solved from them and the terminal flow.
C23_Witness ==
    /\ xirr_call.pc = "returned"
    /\ Len(xirr_call.stocks_data) = 2
    /\ HasKey(xirr_call.individual_orders, xirr_call.stocks_data[1].Symbol)
    /\ Len(xirr_call.individual_orders.dates[
               xirr_call.stocks_data[1].Symbol]) = 2
    /\ xirr_call.xirr_values[1] # 0
    /\ xirr_call.overall_xirr # 0

\* The statuses with which /api/portfolio answers
PortfolioStatuses == {"ok", "empty", "error500", "error401"}

\* The positions of a login or a session check that is about to open the
\* session
OpeningSession == {"li_flag", "li_token", "li_time", "cs_existing", "cs_time"}

\* C24: when logout returns while no login or session check is under way,
\* its response reports success and the session is cleared (logged_in
\* false, login_token and session_start_time None), whether rh.logout()
\* returned or raised; logged_in becomes true again only by a step of a
\* login or of a session check; and a portfolio request answered while
\* logged_in is false is refused with 401.
C24_LogoutClearsSession ==
    [][/\ \A t \in Threads :
              (/\ pc[t] = "lo_time" /\ pc'[t] = "done"
               /\ \A other \in Threads : pc[other] \notin OpeningSession) =>
                  /\ response'[t] = Response("logout", "Logged out successfully")
                  /\ ~logged_in'
                  /\ login_token' = "None"
                  /\ session_start_time' = "None"
       /\ (~logged_in /\ logged_in') =>
              \E t \in Threads : pc[t] \in {"li_flag", "cs_existing"}
       /\ \A t \in Threads :
              (/\ ~logged_in
               /\ pc[t] \in {"idle", "done"}
               /\ pc'[t] = "done"
               /\ response'[t].status \in PortfolioStatuses
               /\ <<pc[t], response[t]>>' # <<pc[t], response[t]>>) =>
                  response'[t] = Response("error401", "Not logged in")]_vars

====
